---- MODULE Spec2Model ----
(***************************************************************************)
(* Model of snapraid's device/SMART reporting (cmdline/device.c):          *)
(* the Backblaze AFR tables and their interpolation (smart_afr_value,      *)
(* smart_afr), the Poisson / MTTDL risk model (fact, poisson_prob_*,       *)
(* raid_prob_of_one_or_more_failures), the printing of a probability       *)
(* (printl, printp), the SMART report (state_smart) and the dispatcher     *)
(* (state_device); and of the directory stream of the Windows port         *)
(* (mingw.c: windows_opendir, windows_readdir, windows_closedir).          *)
(*                                                                         *)
(* Numbers.  TLC integers are 32 bits wide, so                             *)
(*  - uint64_t counters and the digits of the double literals are kept as  *)
(*    naturals of arbitrary size (little-endian sequences of base-10^4     *)
(*    limbs, "Big");                                                       *)
(*  - a double is modelled as an exact signed rational of two Bigs, or     *)
(*    +inf, or NaN (IEEE 754 results of x/0 and 0/0).  Rounding of the     *)
(*    individual +,-,*,/ and pow is not modelled; what is modelled of      *)
(*    rounding is the one place where it changes a result by more than an  *)
(*    ulp: 1 - exp(-x) is exactly 0 or exactly 1 once exp(-x) is within    *)
(*    half an ulp of 1 or of 0 (see exp_neg and OneMinus);                 *)
(*  - exp(-x) for 0 < x is irrational: a value a + c*exp(-x) is kept       *)
(*    symbolically (an "EForm"), and two such values are compared through  *)
(*    the strict monotonicity of exp.                                      *)
(***************************************************************************)
EXTENDS Integers, Sequences, FiniteSets, TLC

(***************************************************************************)
(* Big: naturals of arbitrary size.                                        *)
(***************************************************************************)
Base == 10000

RECURSIVE BNorm(_)
BNorm(a) ==
    IF a = << >> THEN << >>
    ELSE IF a[Len(a)] = 0 THEN BNorm(SubSeq(a, 1, Len(a) - 1))
    ELSE a

RECURSIVE BigOf(_)
BigOf(k) == IF k = 0 THEN << >> ELSE << k % Base >> \o BigOf(k \div Base)

RECURSIVE Reverse(_)
Reverse(s) == IF s = << >> THEN << >> ELSE Reverse(Tail(s)) \o << Head(s) >>

\* A natural written as its decimal digits in groups of four, most
\* significant group first: Groups(<<130, 0000, 0000>>) is 13000000000.
Groups(g) == BNorm(Reverse(g))

BHead(a) == IF a = << >> THEN 0 ELSE Head(a)
BTail(a) == IF a = << >> THEN << >> ELSE Tail(a)

RECURSIVE BCmpFrom(_, _, _)
BCmpFrom(a, b, i) ==
    IF i = 0 THEN 0
    ELSE IF a[i] < b[i] THEN -1
    ELSE IF a[i] > b[i] THEN 1
    ELSE BCmpFrom(a, b, i - 1)

\* -1, 0, 1 as a < b, a = b, a > b (both normalised).
BCmp(a, b) ==
    IF Len(a) < Len(b) THEN -1
    ELSE IF Len(a) > Len(b) THEN 1
    ELSE BCmpFrom(a, b, Len(a))

RECURSIVE BAddC(_, _, _)
BAddC(a, b, c) ==
    IF a = << >> /\ b = << >>
    THEN (IF c = 0 THEN << >> ELSE << c >>)
    ELSE LET x == BHead(a) + BHead(b) + c
         IN  << x % Base >> \o BAddC(BTail(a), BTail(b), x \div Base)

BAdd(a, b) == BAddC(a, b, 0)

RECURSIVE BSubC(_, _, _)
BSubC(a, b, c) ==
    IF a = << >> THEN << >>
    ELSE LET x == Head(a) - BHead(b) - c
         IN  << (x + Base) % Base >>
             \o BSubC(Tail(a), BTail(b), IF x < 0 THEN 1 ELSE 0)

\* a - b for a >= b.
BSub(a, b) == BNorm(BSubC(a, b, 0))

RECURSIVE BMulLimbC(_, _, _)
BMulLimbC(a, k, c) ==
    IF a = << >>
    THEN (IF c = 0 THEN << >> ELSE << c >>)
    ELSE LET x == Head(a) * k + c
         IN  << x % Base >> \o BMulLimbC(Tail(a), k, x \div Base)

\* a * k for one limb 0 <= k < Base.
BMulLimb(a, k) == IF k = 0 THEN << >> ELSE BMulLimbC(a, k, 0)

RECURSIVE BMulAcc(_, _, _, _)
\* acc + a * b * Base^Len(zeros), one limb of b at a time; the test on the
\* partial sum only forces its evaluation before the next limb is taken.
BMulAcc(a, b, zeros, acc) ==
    IF b = << >> THEN acc
    ELSE LET sum == BAdd(acc, IF Head(b) = 0 THEN << >>
                              ELSE zeros \o BMulLimb(a, Head(b)))
         IN  IF Len(sum) >= 0
             THEN BMulAcc(a, Tail(b), zeros \o << 0 >>, sum)
             ELSE << >>

\* The recursion runs over the shorter factor.
BMul(a, b) ==
    IF a = << >> \/ b = << >> THEN << >>
    ELSE BMulAcc(IF Len(b) <= Len(a) THEN a ELSE b,
                 IF Len(b) <= Len(a) THEN b ELSE a, << >>, << >>)

BOne == << 1 >>

\* The number of low zero limbs a and b share (both nonzero).
RECURSIVE LowZeros(_, _, _)
LowZeros(a, b, i) ==
    IF i <= Len(a) /\ i <= Len(b) /\ a[i] = 0 /\ b[i] = 0
    THEN LowZeros(a, b, i + 1)
    ELSE i - 1

(***************************************************************************)
(* double: an exact signed rational n/d (d > 0), +inf, or NaN.             *)
(***************************************************************************)
DInf == [k |-> "inf"]
DNaN == [k |-> "nan"]
DZero == [k |-> "fin", neg |-> FALSE, n |-> << >>, d |-> BOne]

\* The rational (-1)^neg * n/d, with the powers of Base common to n and d
\* cancelled (the representation stays small; the value is unchanged).
MkFin(neg, n, d) ==
    IF n = << >> THEN DZero
    ELSE LET z == LowZeros(n, d, 1)
         IN  [k |-> "fin", neg |-> neg,
              n |-> SubSeq(n, z + 1, Len(n)), d |-> SubSeq(d, z + 1, Len(d))]

\* Conversion of an unsigned integer (a Big, or a small natural) to double.
DOfBig(b) == MkFin(FALSE, b, BOne)
DOfNat(i) == DOfBig(BigOf(i))
DOne == DOfNat(1)

IsFin(x) == x.k = "fin"
IsZero(x) == x.k = "fin" /\ x.n = << >>

DNeg(x) == IF IsFin(x) /\ x.n # << >> THEN [x EXCEPT !.neg = ~x.neg] ELSE x

\* The order of two doubles: -1, 0, 1, or 2 when an operand is NaN and the
\* two are unordered (only +inf occurs).
DCmp(x, y) ==
    CASE x.k = "nan" \/ y.k = "nan" -> 2
      [] x.k = "inf" -> IF y.k = "inf" THEN 0 ELSE 1
      [] y.k = "inf" -> -1
      [] x.neg # y.neg -> IF x.neg THEN -1 ELSE 1
      [] OTHER -> (IF x.neg THEN -1 ELSE 1)
                  * BCmp(BMul(x.n, y.d), BMul(y.n, x.d))

\* x < y, x == y and x <= y as C evaluates them (false whenever an operand
\* is NaN).
DLess(x, y) == DCmp(x, y) = -1
DEq(x, y) == DCmp(x, y) = 0
DLeq(x, y) == DCmp(x, y) \in {-1, 0}

\* (-1)^xneg * xn/d + (-1)^yneg * yn/d.
AddSigned(xneg, xn, yneg, yn, d) ==
    IF xneg = yneg THEN MkFin(xneg, BAdd(xn, yn), d)
    ELSE IF BCmp(xn, yn) >= 0 THEN MkFin(xneg, BSub(xn, yn), d)
    ELSE MkFin(yneg, BSub(yn, xn), d)

DAddFin(x, y) ==
    IF x.d = y.d THEN AddSigned(x.neg, x.n, y.neg, y.n, x.d)
    ELSE AddSigned(x.neg, BMul(x.n, y.d), y.neg, BMul(y.n, x.d), BMul(x.d, y.d))

\* x + y (only +inf occurs).
DAdd(x, y) ==
    CASE x.k = "nan" \/ y.k = "nan" -> DNaN
      [] x.k = "inf" \/ y.k = "inf" -> DInf
      [] OTHER -> DAddFin(x, y)

DSub(x, y) ==
    CASE x.k = "nan" \/ y.k = "nan" -> DNaN
      [] y.k = "inf" -> DNaN
      [] x.k = "inf" -> DInf
      [] OTHER -> DAddFin(x, DNeg(y))

\* x * y for operands that are not negative infinities.
DMul(x, y) ==
    CASE x.k = "nan" \/ y.k = "nan" -> DNaN
      [] x.k = "inf" -> IF IsZero(y) THEN DNaN ELSE DInf
      [] y.k = "inf" -> IF IsZero(x) THEN DNaN ELSE DInf
      [] OTHER -> MkFin(x.neg # y.neg, BMul(x.n, y.n), BMul(x.d, y.d))

\* x / y (IEEE 754: x/0 is inf, 0/0 and inf/inf are NaN, x/inf is 0); the
\* operands of the divisions of this program are never negative.
DDiv(x, y) ==
    CASE x.k = "nan" \/ y.k = "nan" -> DNaN
      [] x.k = "inf" -> IF y.k = "inf" THEN DNaN ELSE DInf
      [] y.k = "inf" -> DZero
      [] IsZero(y) -> IF IsZero(x) THEN DNaN ELSE DInf
      [] OTHER -> MkFin(x.neg # y.neg, BMul(x.n, y.d), BMul(x.d, y.n))

RECURSIVE DPowFin(_, _)
DPowFin(x, e) == IF e = 0 THEN DOne ELSE DMul(DPowFin(x, e - 1), x)

\* pow(x, e) of <math.h> for an integer e >= 0: pow(x, 0) is 1 for every x,
\* NaN included.
pow(x, e) ==
    CASE e = 0 -> DOne
      [] x.k = "nan" -> DNaN
      [] x.k = "inf" -> DInf
      [] OTHER -> DPowFin(x, e)

(***************************************************************************)
(* Annual Failure Rate data points (struct afr_point).                     *)
(***************************************************************************)
\* The decimal literal ip.g1g2..gk, its fraction in groups of four digits.
Dec(ip, g) ==
    LET one == [i \in 1..(Len(g) + 1) |-> IF i = Len(g) + 1 THEN 1 ELSE 0]
    IN  MkFin(FALSE, BAdd(BMul(BigOf(ip), one), Groups(g)), one)

Pt(v, a) == [value |-> v, afr |-> a]

\* A C array: indexed from 0.
Tab(s) == [i \in 0..(Len(s) - 1) |-> s[i + 1]]

AFR_5 == Tab(<<
    Pt(BigOf(0), DZero),
    Pt(BigOf(1), Dec(0, << 0274, 3260, 8477, 8033, 8800 >>)),
    Pt(BigOf(4), Dec(0, << 0750, 1976, 2845, 8498, 1000 >>)),
    Pt(BigOf(16), Dec(0, << 2358, 9260, 6544, 0579, 4000 >>)),
    Pt(BigOf(70), Dec(0, << 3619, 3219, 3786, 0043, 3000 >>)),
    Pt(BigOf(260), Dec(0, << 5676, 6214, 2896, 8173, 0000 >>)),
    Pt(BigOf(1100), Dec(1, << 5028, 2534, 0034, 6423, 0000 >>)),
    Pt(BigOf(4500), Dec(2, << 0659, 9875, 4740, 4763, 0000 >>)),
    Pt(Groups(<< 1, 7000 >>), Dec(1, << 7755, 3856, 8450, 3124, 0000 >>)),
    Pt(BigOf(0), DZero)
    >>)

AFR_187 == Tab(<<
    Pt(BigOf(0), DZero),
    Pt(BigOf(1), Dec(0, << 3387, 7621, 1756, 6174, 3000 >>)),
    Pt(BigOf(3), Dec(0, << 5014, 4250, 5838, 7142, 0000 >>)),
    Pt(BigOf(11), Dec(0, << 5346, 0945, 9834, 8444, 0000 >>)),
    Pt(BigOf(20), Dec(0, << 8428, 0639, 4316, 1636, 0000 >>)),
    Pt(BigOf(35), Dec(1, << 4429, 0710, 0501, 7484, 0000 >>)),
    Pt(BigOf(65), Dec(1, << 6190, 9353, 9054, 9661, 0000 >>)),
    Pt(BigOf(0), DZero)
    >>)

AFR_188 == Tab(<<
    Pt(BigOf(0), DZero),
    Pt(BigOf(1), Dec(0, << 1004, 4174, 0893, 6201, 5000 >>)),
    Pt(Groups(<< 130, 0000, 0000 >>), Dec(0, << 3340, 3059, 2234, 2790, 0000 >>)),
    Pt(Groups(<< 260, 0000, 0000 >>), Dec(0, << 3672, 4705, 4008, 4244, 5000 >>)),
    Pt(BigOf(0), DZero)
    >>)

AFR_193 == Tab(<<
    Pt(BigOf(0), DZero),
    Pt(BigOf(1300), Dec(0, << 0248, 0048, 9215, 1297, 2500 >>)),
    Pt(BigOf(5500), Dec(0, << 0585, 9661, 4177, 7255, 7000 >>)),
    Pt(Groups(<< 2, 1000 >>), Dec(0, << 1956, 6577, 6034, 0920, 8000 >>)),
    Pt(Groups(<< 9, 0000 >>), Dec(0, << 2673, 6882, 0571, 2117, 0000 >>)),
    Pt(BigOf(0), DZero)
    >>)

AFR_197 == Tab(<<
    Pt(BigOf(0), DZero),
    Pt(BigOf(1), Dec(0, << 3419, 6613, 7991, 0325, 4000 >>)),
    Pt(BigOf(2), Dec(0, << 6823, 7725, 0811, 7681, 0000 >>)),
    Pt(BigOf(16), Dec(0, << 9564, 8793, 4112, 7684, 0000 >>)),
    Pt(BigOf(40), Dec(1, << 6519, 9899, 4216, 7461, 0000 >>)),
    Pt(BigOf(100), Dec(2, << 5137, 7410, 4683, 1956, 0000 >>)),
    Pt(BigOf(250), Dec(3, << 3203, 3788, 1741, 3904, 0000 >>)),
    Pt(BigOf(0), DZero)
    >>)

AFR_198 == Tab(<<
    Pt(BigOf(0), DZero),
    Pt(BigOf(1), Dec(0, << 8135, 7649, 4427, 5583, 0000 >>)),
    Pt(BigOf(2), Dec(1, << 1173, 4693, 8775, 5102, 0000 >>)),
    Pt(BigOf(4), Dec(1, << 3558, 6924, 2199, 1083, 0000 >>)),
    Pt(BigOf(10), Dec(1, << 7464, 1148, 3253, 5886, 0000 >>)),
    Pt(BigOf(12), Dec(2, << 6449, 2753, 6231, 8843, 0000 >>)),
    Pt(BigOf(0), DZero)
    >>)

\* uint64_t subtraction: modulo 2^64.
Two64 == Groups(<< 1844, 6744, 0737, 0955, 1616 >>)
U64Sub(a, b) == IF BCmp(a, b) >= 0 THEN BSub(a, b) ELSE BSub(BAdd(a, Two64), b)

RECURSIVE AfrScan(_, _, _)
\* while (tab[i].value != 0 && tab[i].value < value) ++i;
AfrScan(tab, value, i) ==
    IF tab[i].value # << >> /\ BCmp(tab[i].value, value) < 0
    THEN AfrScan(tab, value, i + 1)
    ELSE i

\* A faulty smart_afr_value: no interpolation, the rate of the point reached
\* by the scan.
SmartAfrValueStep(tab, value) ==
    IF value = << >> THEN DZero
    ELSE IF tab[AfrScan(tab, value, 1)].value = << >>
    THEN tab[AfrScan(tab, value, 1) - 1].afr
    ELSE tab[AfrScan(tab, value, 1)].afr

\* A faulty smart_afr_value: the interpolation starts from tab[i].afr
\* instead of tab[i-1].afr.
SmartAfrValueFromAbove(tab, value) ==
    IF value = << >> THEN DZero
    ELSE LET i == AfrScan(tab, value, 1)
         IN  IF tab[i].value = << >> THEN tab[i - 1].afr
             ELSE IF tab[i].value = value THEN tab[i].afr
             ELSE DAdd(tab[i].afr,
                       DDiv(DMul(DOfBig(U64Sub(value, tab[i - 1].value)),
                                 DSub(tab[i].afr, tab[i - 1].afr)),
                            DOfBig(U64Sub(tab[i].value, tab[i - 1].value))))

\* Computes the estimated AFR from a set of data points.
smart_afr_value(tab, value) ==
    IF value = << >> THEN DZero
    ELSE LET i == AfrScan(tab, value, 1)
             delta_afr == DSub(tab[i].afr, tab[i - 1].afr)
             delta_value == DOfBig(U64Sub(tab[i].value, tab[i - 1].value))
         IN  IF tab[i].value = << >> THEN tab[i - 1].afr
             ELSE IF tab[i].value = value THEN tab[i].afr
             ELSE DAdd(tab[i - 1].afr,
                       DDiv(DMul(DOfBig(U64Sub(value, tab[i - 1].value)),
                                 delta_afr),
                            delta_value))

\* The sentinel of an attribute the device does not report (state.h).
SMART_UNASSIGNED == Groups(<< 1844, 6744, 0737, 0955, 1615 >>)

\* One step of smart_afr: if (smart[id] != SMART_UNASSIGNED) afr += ...
AfrAdd(afr, tab, v) ==
    IF v # SMART_UNASSIGNED THEN DAdd(afr, smart_afr_value(tab, v)) ELSE afr

\* The table smart_afr reads for each attribute it monitors.
MonitoredIds == << 5, 187, 188, 193, 197, 198 >>

MonitoredTable(id) ==
    CASE id = 5 -> AFR_5
      [] id = 187 -> AFR_187
      [] id = 188 -> AFR_188
      [] id = 193 -> AFR_193
      [] id = 197 -> AFR_197
      [] id = 198 -> AFR_198

RECURSIVE SmartAfrAllLoop(_, _, _)
SmartAfrAllLoop(afr, smart, k) ==
    IF k > Len(MonitoredIds) THEN afr
    ELSE SmartAfrAllLoop(
             DAdd(afr, smart_afr_value(MonitoredTable(MonitoredIds[k]),
                                       smart[MonitoredIds[k]])),
             smart, k + 1)

\* A faulty smart_afr: the attributes are not tested against
\* SMART_UNASSIGNED.
SmartAfrAll(smart) == SmartAfrAllLoop(DZero, smart, 1)

\* Computes the estimated AFR of a set of SMART attributes.
smart_afr(smart) ==
    LET a5   == AfrAdd(DZero, AFR_5, smart[5])
        a187 == AfrAdd(a5, AFR_187, smart[187])
        a188 == AfrAdd(a187, AFR_188, smart[188])
        a193 == AfrAdd(a188, AFR_193, smart[193])
        a197 == AfrAdd(a193, AFR_197, smart[197])
    IN  AfrAdd(a197, AFR_198, smart[198])

(***************************************************************************)
(* exp.  exp(-x) is 1 for x = 0, 0 for x = +inf, and in double precision   *)
(* exactly 1.0 as soon as x <= 2^-54 (half an ulp below 1).  For larger    *)
(* finite x it is irrational; a value a + c * exp(-x) is then kept as the  *)
(* record [k |-> "exp", a, c, x] ("EForm").                                *)
(***************************************************************************)
\* 2^-54: the largest x for which the double exp(-x) is 1.0.
HalfUlpOfOne == MkFin(FALSE, BOne, Groups(<< 1, 8014, 3985, 0948, 1984 >>))

\* 54 * ln 2 = 37.42994775023704... (to 10 decimals, rounded up): from here
\* on exp(-x) <= 2^-54 and the double 1 - exp(-x) is 1.0.
ExpBelowHalfUlp == Dec(37, << 4299, 4775, 0300 >>)

IsExp(v) == v.k = "exp"

\* exp(-x) for x >= 0.
exp_neg(x) ==
    CASE x.k = "nan" -> DNaN
      [] x.k = "inf" -> DZero
      [] DLeq(x, HalfUlpOfOne) -> DOne
      [] OTHER -> [k |-> "exp", a |-> DZero, c |-> DOne, x |-> x]

\* v * d and v / d for a plain double d.
VMul(v, d) ==
    IF IsExp(v) THEN [v EXCEPT !.a = DMul(v.a, d), !.c = DMul(v.c, d)]
    ELSE DMul(v, d)

VDiv(v, d) ==
    IF IsExp(v) THEN [v EXCEPT !.a = DDiv(v.a, d), !.c = DDiv(v.c, d)]
    ELSE DDiv(v, d)

\* v + w; two EForms added in this program have the same x.
VAdd(v, w) ==
    CASE IsExp(v) /\ IsExp(w) ->
            [v EXCEPT !.a = DAdd(v.a, w.a), !.c = DAdd(v.c, w.c)]
      [] IsExp(v) /\ ~IsExp(w) -> [v EXCEPT !.a = DAdd(v.a, w)]
      [] ~IsExp(v) /\ IsExp(w) -> [w EXCEPT !.a = DAdd(v, w.a)]
      [] OTHER -> DAdd(v, w)

\* 1 - v.  For v = exp(-x) the difference is the double 1.0 once
\* exp(-x) <= 2^-54.
OneMinus(v) ==
    IF ~IsExp(v) THEN DSub(DOne, v)
    ELSE IF IsZero(v.a) /\ DEq(v.c, DOne) /\ DLeq(ExpBelowHalfUlp, v.x)
    THEN DOne
    ELSE [v EXCEPT !.a = DSub(DOne, v.a), !.c = DNeg(v.c)]

\* v is 1 - exp(-x) with HalfUlpOfOne < x < ExpBelowHalfUlp: a double
\* strictly between 0 and 1.
IsTail1(v) == IsExp(v) /\ DEq(v.a, DOne) /\ DEq(v.c, DNeg(DOne))

\* 2^-48 and 1/100.
TwoPowMinus48 == MkFin(FALSE, BOne, Groups(<< 281, 4749, 7671, 0656 >>))
Hundredth == MkFin(FALSE, BOne, BigOf(100))

\* x < y, far enough apart for the doubles 1 - exp(-x) and 1 - exp(-y) to
\* differ: exp(-x) - exp(-y) >= exp(-y) * (y - x) is at least four ulps of
\* exp(-x) (2^-52 covers the range [1/2, 1)).
Separated(x, y) ==
    /\ DLess(x, y)
    /\ \/ DLeq(y, DOne) /\ DLeq(TwoPowMinus48, DSub(y, x))
       \/ DLeq(y, DOfNat(30)) /\ DLeq(Hundredth, DSub(y, x))
       \/ DLeq(DOfNat(3), DSub(y, x))

\* A plain double that is 0 or less, or 1 or more.
Outside01(p) == ~IsExp(p) /\ (DLeq(p, DZero) \/ DLeq(DOne, p))

\* The order of two results of the Poisson tail for n = 1: plain doubles,
\* or values 1 - exp(-x), which lie strictly between 0 and 1 and do not
\* decrease with x.  VLess: the first double is smaller; VLeq: it is not
\* larger; VEq: the two are the same double for certain.
VLess(p, q) ==
    CASE ~IsExp(p) /\ ~IsExp(q) -> DLess(p, q)
      [] IsTail1(p) /\ IsTail1(q) -> Separated(p.x, q.x)
      [] Outside01(p) /\ IsTail1(q) -> DLeq(p, DZero)
      [] IsTail1(p) /\ Outside01(q) -> DLeq(DOne, q)

VLeq(p, q) ==
    CASE ~IsExp(p) /\ ~IsExp(q) -> DLeq(p, q)
      [] IsTail1(p) /\ IsTail1(q) -> DLeq(p.x, q.x)
      [] Outside01(p) /\ IsTail1(q) -> DLeq(p, DZero)
      [] IsTail1(p) /\ Outside01(q) -> DLeq(DOne, q)

VEq(p, q) ==
    CASE ~IsExp(p) /\ ~IsExp(q) -> DEq(p, q)
      [] IsTail1(p) /\ IsTail1(q) -> DEq(p.x, q.x)
      [] Outside01(p) /\ IsTail1(q) -> FALSE
      [] IsTail1(p) /\ Outside01(q) -> FALSE

\* The two results may be one and the same double: equal plain doubles, or
\* two values 1 - exp(-x) that rounding does not tell apart for certain.
SameRounded(p, q) ==
    \/ ~IsExp(p) /\ ~IsExp(q) /\ DEq(p, q)
    \/ IsTail1(p) /\ IsTail1(q)
          /\ ~Separated(p.x, q.x) /\ ~Separated(q.x, p.x)

(***************************************************************************)
(* The Poisson model and the MTTDL model.                                  *)
(***************************************************************************)
RECURSIVE factLoop(_, _)
\* while (n > 1) v *= n--;
factLoop(v, n) == IF n > 1 THEN factLoop(DMul(v, DOfNat(n)), n - 1) ELSE v

fact(n) == factLoop(DOne, n)

\* Probability of having exactly n events with rate `rate` in a time unit.
poisson_prob_n_failures(rate, n) ==
    VDiv(VMul(exp_neg(rate), pow(rate, n)), fact(n))

RECURSIVE PNegLoop(_, _, _, _)
\* for (i = 0; i < n; ++i) p_neg += poisson_prob_n_failures(rate, n - 1 - i);
PNegLoop(p_neg, rate, n, i) ==
    IF i < n
    THEN PNegLoop(VAdd(p_neg, poisson_prob_n_failures(rate, n - 1 - i)),
                  rate, n, i + 1)
    ELSE p_neg

\* A faulty poisson_prob_n_or_more_failures: the complement is not taken.
PoissonTailNoComplement(rate, n) == PNegLoop(DZero, rate, n, 0)

\* Probability of having n or more events with rate `rate` in a time unit.
poisson_prob_n_or_more_failures(rate, n) ==
    OneMinus(PNegLoop(DZero, rate, n, 0))

\* unsigned subtraction: modulo 2^32.
Two32 == Groups(<< 42, 9496, 7296 >>)
U32Sub(a, b) == IF a >= b THEN BigOf(a - b) ELSE BSub(Two32, BigOf(b - a))

\* A faulty MttdlLoop: MTTDL is not divided by the falling product.
MttdlKeep(MTTDL, n, redundancy, i) == MTTDL

RECURSIVE MttdlLoop(_, _, _, _)
\* for (i = 0; i < redundancy + 1; ++i) MTTDL /= n - i;
MttdlLoop(MTTDL, n, redundancy, i) ==
    IF i < redundancy + 1
    THEN MttdlLoop(DDiv(MTTDL, DOfBig(U32Sub(n, i))), n, redundancy, i + 1)
    ELSE MTTDL

\* A faulty raid_failure_rate: MTTDL multiplied by pow(MTTR, redundancy)
\* instead of divided by it.
RaidRateTimesRepair(array_failure_rate, replace_rate, n, redundancy) ==
    DDiv(DOne,
         MttdlLoop(DMul(pow(DDiv(DOfNat(n), array_failure_rate), redundancy + 1),
                        pow(DDiv(DOne, replace_rate), redundancy)),
                   n, redundancy, 0))

\* The rate of data loss of the array: 1 / MTTDL.
raid_failure_rate(array_failure_rate, replace_rate, n, redundancy) ==
    LET MTBF == DDiv(DOfNat(n), array_failure_rate)
        MTTR == DDiv(DOne, replace_rate)
        MTTDL0 == DDiv(pow(MTBF, redundancy + 1), pow(MTTR, redundancy))
    IN  DDiv(DOne, MttdlLoop(MTTDL0, n, redundancy, 0))

\* Probability of data loss in a RAID with the specified redundancy.
raid_prob_of_one_or_more_failures(array_failure_rate, replace_rate, n, redundancy) ==
    poisson_prob_n_or_more_failures(
        raid_failure_rate(array_failure_rate, replace_rate, n, redundancy), 1)

(***************************************************************************)
(* The state of the program.                                               *)
(***************************************************************************)
VARIABLES
    state,               \* struct snapraid_state: disklist, level, parity
    operation,           \* DEVICE_UP, DEVICE_DOWN, DEVICE_LIST, DEVICE_SMART
    pc,                  \* the position of state_device
    high,                \* the requested list
    low,                 \* the resolved list
    i,                   \* the list cursor of the running loop (an index)
    j,                   \* the unsigned loop counter
    out,                 \* what was written to stdout
    err,                 \* what was written to stderr
    queries,             \* the calls of devquery made so far
    count,               \* state_device: the logical disks forming the array
    array_failure_rate,  \* state_smart: the sum of the AFR of the array disks
    calls,               \* the calls of raid_prob_of_one_or_more_failures
    freed,               \* the records released so far, per list
    fin,                 \* inputs of a function applied on its own
    fout,                \* and its results
    dirstream,           \* mingw.c: the windows_dir of the stream
    win,                 \* the directory, its find handle, the heap
    errno,               \* errno
    reads                \* what the calls of windows_readdir returned

vars == << state, operation, pc, high, low, i, j, out, err, queries, count,
           array_failure_rate, calls, freed, fin, fout,
           dirstream, win, errno, reads >>

\* The variables of the directory stream.
dirvars == << dirstream, win, errno, reads >>

\* Bounds of the configurations explored.
MaxDisks == 2
MaxLevel == 2
MaxPhys == 2

\* The number of parity levels of the raid library (raid/raid.h).
RAID_PARITY_MAX == 6

DEVICE_UP == "DEVICE_UP"
DEVICE_DOWN == "DEVICE_DOWN"
DEVICE_LIST == "DEVICE_LIST"
DEVICE_SMART == "DEVICE_SMART"
Operations == {DEVICE_UP, DEVICE_DOWN, DEVICE_LIST, DEVICE_SMART}

\* The identifiers of the two synthetic attributes (state.h).
SMART_ERROR == 256
SMART_SIZE == 257

\* The attributes device.c reads.
SmartIds == {5, 9, 187, 188, 190, 193, 194, 197, 198, SMART_ERROR, SMART_SIZE}

(***************************************************************************)
(* Strings are sequences of characters; "" is << >>.                       *)
(***************************************************************************)
Digit(k) == << "0", "1", "2", "3", "4", "5", "6", "7", "8", "9" >>[k + 1]

Max(a, b) == IF a >= b THEN a ELSE b
Min(a, b) == IF a <= b THEN a ELSE b

\* pathcut(): cuts the path after its last '/'.
RECURSIVE LastSlash(_, _)
LastSlash(path, k) ==
    IF k = 0 THEN 0 ELSE IF path[k] = "/" THEN k ELSE LastSlash(path, k - 1)

pathcut(path) == SubSeq(path, 1, LastSlash(path, Len(path)))

\* lev_config_name(): "parity", "2-parity", "3-parity", ... (raid library).
lev_config_name(level) ==
    IF level = 0 THEN << "p", "a", "r", "i", "t", "y" >>
    ELSE << Digit(level + 1), "-", "p", "a", "r", "i", "t", "y" >>

(***************************************************************************)
(* The configuration: the disks and parities of the array, each on a       *)
(* partition of one of MaxPhys physical devices.                           *)
(***************************************************************************)
\* dev_t of partition `part` of physical device k (part 0: the device).
DevT(k, part) == [major |-> 8, minor |-> 16 * (k - 1) + part]

\* The ways to place m members on physical devices, up to renaming: the
\* first member is on device 1, each next one on a used device or on the
\* first unused one.
RECURSIVE Placements(_)
Placements(m) ==
    IF m = 0 THEN { << >> }
    ELSE { Append(pl, k) :
             pl \in Placements(m - 1),
             k \in 1..MaxPhys } 

Canonical(pl) ==
    \A m \in 1..Len(pl) :
        \A k \in 1..(pl[m] - 1) : \E m2 \in 1..(m - 1) : pl[m2] = k

DiskOf(m, k) ==
    [name |-> << "d", Digit(m) >>,
     dir |-> << "/", "m", "/", "d", Digit(m), "/" >>,
     device |-> DevT(k, m)]

ParityOf(m, k) ==
    [path |-> << "/", "m", "/", "p", Digit(m), "/", "s", ".", "p" >>,
     device |-> DevT(k, m)]

\* struct snapraid_state, for nd disks and `level` parities placed by pl.
StateOf(nd, level, pl) ==
    [disklist |-> [m \in 1..nd |-> DiskOf(m, pl[m])],
     level |-> level,
     parity |-> [m \in 1..level |-> ParityOf(nd + m, pl[nd + m])]]

States ==
    UNION { { StateOf(c[1], c[2], pl) :
                pl \in { q \in Placements(c[1] + c[2]) : Canonical(q) } } :
            c \in (1..MaxDisks) \X (1..MaxLevel) }

(***************************************************************************)
(* devquery(): the platform's device query.  It resolves each requested    *)
(* entry to a logical record whose parent is the record of its physical    *)
(* device, one record per physical device; for DEVICE_SMART it fills the   *)
(* attributes of every record.  It returns non-zero, and an empty list,    *)
(* where the platform does not support the operation.                      *)
(***************************************************************************)
\* devinfo_t as calloc_nofail() returns it.
ZeroSmart == [id \in SmartIds |-> BigOf(0)]

ZeroEntry ==
    [device |-> [major |-> 0, minor |-> 0], name |-> << >>, mount |-> << >>,
     file |-> << >>, smart_serial |-> << >>, smart |-> ZeroSmart, parent |-> 0]

\* Three devices as SMART may report them: no attribute at all, a healthy
\* disk, a failing disk.
SmartNone == [id \in SmartIds |-> SMART_UNASSIGNED]

SmartHealthy ==
    [id \in SmartIds |->
        CASE id = 9 -> BigOf(2400)
          [] id = 193 -> BigOf(1300)
          [] id = 194 -> BigOf(35)
          [] id = 190 -> SMART_UNASSIGNED
          [] id = SMART_SIZE -> Groups(<< 4, 0000, 0000, 0000 >>)
          [] OTHER -> BigOf(0)]

SmartFailing ==
    [id \in SmartIds |->
        CASE id = 5 -> BigOf(100)
          [] id = 9 -> Groups(<< 4, 3800 >>)
          [] id = 190 -> BigOf(41)
          [] id = 197 -> BigOf(250)
          [] id = 198 -> BigOf(12)
          [] id = SMART_ERROR -> BigOf(3)
          [] OTHER -> SMART_UNASSIGNED]

SmartProfiles == {SmartNone, SmartHealthy, SmartFailing}

PhysOf(device) == device.minor \div 16 + 1
PhysFile(k) == << "/", "d", "e", "v", "/", "s", "d" >> \o [x \in 1..k |-> "a"]
PhysSerial(k) == IF k % 2 = 1 THEN << "S", Digit(k) >> ELSE << >>

\* The physical devices under the requested entries, in order.
PhysUsed(req) == { PhysOf(req[m].device) : m \in 1..Len(req) }
Rank(S, k) == Cardinality({ x \in S : x <= k })

\* The resolved list: the physical records, then one logical record per
\* requested entry.
Resolved(req, smartOf) ==
    LET used == PhysUsed(req)
        np == Cardinality(used)
        phys(r) == CHOOSE k \in used : Rank(used, k) = r
    IN  [r \in 1..(np + Len(req)) |->
            IF r <= np
            THEN [ZeroEntry EXCEPT
                    !.device = DevT(phys(r), 0),
                    !.file = PhysFile(phys(r)),
                    !.smart_serial = PhysSerial(phys(r)),
                    !.smart = smartOf[phys(r)]]
            ELSE LET e == req[r - np]
                     k == PhysOf(e.device)
                 IN  [e EXCEPT
                        !.file = PhysFile(k) \o << Digit(e.device.minor % 16) >>,
                        !.smart_serial = PhysSerial(k),
                        !.smart = smartOf[k],
                        !.parent = Rank(used, k)]]

\* What devquery(&high, &low, operation) may return: << ret, low >>.
devquery(req, op) ==
    { << -1, << >> >> }
    \cup { << 0, Resolved(req, smartOf) >> :
             smartOf \in IF op = DEVICE_SMART
                         THEN [PhysUsed(req) -> SmartProfiles]
                         ELSE [PhysUsed(req) -> {ZeroSmart}] }

(***************************************************************************)
(* printl(), printp(): a string, and a probability, with space padding.    *)
(***************************************************************************)
RECURSIVE QuotLimb(_, _, _, _)
\* The largest q of lo..hi with b * q <= r, given b * lo <= r.
QuotLimb(r, b, lo, hi) ==
    IF lo = hi THEN lo
    ELSE IF BCmp(BMulLimb(b, (lo + hi + 1) \div 2), r) <= 0
    THEN QuotLimb(r, b, (lo + hi + 1) \div 2, hi)
    ELSE QuotLimb(r, b, lo, (lo + hi + 1) \div 2 - 1)

RECURSIVE BDivLoop(_, _, _, _)
RECURSIVE BDivDigit(_, _, _, _)
RECURSIVE BDivNext(_, _, _, _, _)
\* Long division by b > 0 of the limbs a (most significant first), with r
\* the remainder and q the quotient so far: << quotient, remainder >>.
BDivLoop(a, b, r, q) ==
    IF a = << >> THEN << BNorm(q), r >>
    ELSE BDivDigit(Tail(a), b, BNorm(<< Head(a) >> \o r), q)

BDivDigit(a, b, cur, q) ==
    BDivNext(a, b, cur, q, QuotLimb(cur, b, 0, Base - 1))

BDivNext(a, b, cur, q, d) ==
    BDivLoop(a, b, BSub(cur, BMulLimb(b, d)), << d >> \o q)

\* The quotient qr[1] of a division by d with remainder qr[2], rounded to
\* the nearest integer, a tie to the even one (the rounding of printf for
\* the default rounding direction).
RoundNearestEven(qr, d) ==
    IF \/ BCmp(BMulLimb(qr[2], 2), d) = 1
       \/ BCmp(BMulLimb(qr[2], 2), d) = 0 /\ BHead(qr[1]) % 2 = 1
    THEN BAdd(qr[1], BOne)
    ELSE qr[1]

\* n / d rounded to an integer.
BDivRound(n, d) == RoundNearestEven(BDivLoop(Reverse(n), d, << >>, << >>), d)

\* 10^e
Pow10(e) ==
    [x \in 1..(e \div 4 + 1) |->
        IF x <= e \div 4 THEN 0 ELSE << 1, 10, 100, 1000 >>[(e % 4) + 1]]

\* The decimal digits of a natural, most significant first.
LimbDigits(x) ==
    << Digit(x \div 1000), Digit((x \div 100) % 10), Digit((x \div 10) % 10),
       Digit(x % 10) >>

RECURSIVE BigDigits(_)
BigDigits(a) ==
    IF a = << >> THEN << >> ELSE BigDigits(Tail(a)) \o LimbDigits(Head(a))

RECURSIVE StripZeros(_)
StripZeros(ds) ==
    IF ds # << >> /\ Head(ds) = "0" THEN StripZeros(Tail(ds)) ELSE ds

Repeat(c, len) == [x \in 1..len |-> c]

\* The digits ds with zeros before them up to len digits.
ZeroPad(ds, len) == Repeat("0", len - Len(ds)) \o ds

\* The digits ds with a decimal point before the last `decimals` of them.
WithPoint(ds, decimals) ==
    SubSeq(ds, 1, Len(ds) - decimals) \o << "." >>
    \o SubSeq(ds, Len(ds) - decimals + 1, Len(ds))

\* The conversion %.<decimals>f of printf.
FormatF(decimals, v) ==
    CASE v.k = "nan" -> << "n", "a", "n" >>
      [] v.k = "inf" -> << "i", "n", "f" >>
      [] OTHER ->
           (IF v.neg THEN << "-" >> ELSE << >>)
           \o WithPoint(ZeroPad(StripZeros(BigDigits(
                            BDivRound(BMul(v.n, Pow10(decimals)), v.d))),
                        decimals + 1),
                        decimals)

\* A conversion right-justified in a field of at least width characters.
FieldOf(width, text) == Repeat(" ", width - Len(text)) \o text

\* snprintf(buf, size, "%<width>.<decimals>f%s", v, s): at most size - 1
\* characters are stored.
Stored(size, text) == SubSeq(text, 1, Min(size - 1, Len(text)))

snprintf(size, width, decimals, v, s) ==
    Stored(size, FieldOf(width, FormatF(decimals, v)) \o s)

RECURSIVE printf(_)
\* printf(str) for a str of plain characters and "%%": what is printed.
printf(str) ==
    IF str = << >> THEN << >>
    ELSE IF Head(str) = "%" /\ Len(str) >= 2 /\ str[2] = "%"
    THEN << "%" >> \o printf(Tail(Tail(str)))
    ELSE << Head(str) >> \o printf(Tail(str))

\* printl(str, pad): str is printed as a format, then one space for each
\* character that strlen(str) is short of pad.
printl(str, pad) == printf(str) \o Repeat(" ", pad - Len(str))

\* The branches of printp but the last: v > above prints with "%<width>.
\* <decimals>f".
PrintpRows ==
    <<
      [above |-> Dec(0, << 1000 >>), width |-> 5, decimals |-> 2],
      [above |-> Dec(0, << 100 >>), width |-> 6, decimals |-> 3],
      [above |-> Dec(0, << 10 >>), width |-> 7, decimals |-> 4],
      [above |-> Dec(0, << 1 >>), width |-> 8, decimals |-> 5],
      [above |-> Dec(0, << 0, 1000 >>), width |-> 9, decimals |-> 6],
      [above |-> Dec(0, << 0, 100 >>), width |-> 10, decimals |-> 7],
      [above |-> Dec(0, << 0, 10 >>), width |-> 11, decimals |-> 8],
      [above |-> Dec(0, << 0, 1 >>), width |-> 12, decimals |-> 9],
      [above |-> Dec(0, << 0, 0, 1000 >>), width |-> 13, decimals |-> 10],
      [above |-> Dec(0, << 0, 0, 100 >>), width |-> 14, decimals |-> 11],
      [above |-> Dec(0, << 0, 0, 10 >>), width |-> 15, decimals |-> 12],
      [above |-> Dec(0, << 0, 0, 1 >>), width |-> 16, decimals |-> 13]
    >>

\* The last branch.
PrintpElse == [width |-> 17, decimals |-> 14]

RECURSIVE PrintpRowInclusive(_, _)
\* The branch taken were the comparisons v >= above.
PrintpRowInclusive(v, k) ==
    IF k > Len(PrintpRows) THEN PrintpElse
    ELSE IF DCmp(v, PrintpRows[k].above) \in {0, 1} THEN PrintpRows[k]
    ELSE PrintpRowInclusive(v, k + 1)

RECURSIVE PrintpRow(_, _)
\* The branch of v, looked for from the k-th: the first with v > above.
PrintpRow(v, k) ==
    IF k > Len(PrintpRows) THEN PrintpElse
    ELSE IF DCmp(v, PrintpRows[k].above) = 1 THEN PrintpRows[k]
    ELSE PrintpRow(v, k + 1)

\* char buf[64]; const char* s = " %%";
PrintpBufSize == 64
PrintpSuffix == << " ", "%", "%" >>

PrintpBuf(row, v) ==
    snprintf(PrintpBufSize, row.width, row.decimals, v, PrintpSuffix)

\* printp(v, pad): what is printed.
printp(v, pad) == printl(PrintpBuf(PrintpRow(v, 1), v), pad)

(***************************************************************************)
(* state_smart(): the SMART report.                                        *)
(***************************************************************************)
RECURSIVE BDivLimbR(_, _, _)
\* Long division of the limbs a (most significant first) by k, remainder r.
BDivLimbR(a, k, r) ==
    IF a = << >> THEN << >>
    ELSE LET x == r * Base + Head(a)
         IN  << x \div k >> \o BDivLimbR(Tail(a), k, x % k)

\* a / k in uint64_t, for 0 < k < Base.
BDivSmall(a, k) == Groups(BDivLimbR(Reverse(a), k, 0))

Dash == << "-" >>
Percent(v) == VMul(v, DOfNat(100))

\* The padding of the Device and Serial columns: the longest of each.
RECURSIVE MaxLen(_, _, _)
MaxLen(list, field, k) ==
    IF k = 0 THEN 0 ELSE Max(Len(list[k][field]), MaxLen(list, field, k - 1))

\* The row of one device.
SmartRowOf(devinfo) ==
    [t |-> "smart_row",
     temp |-> IF devinfo.smart[194] # SMART_UNASSIGNED THEN devinfo.smart[194]
              ELSE IF devinfo.smart[190] # SMART_UNASSIGNED THEN devinfo.smart[190]
              ELSE Dash,
     days |-> IF devinfo.smart[9] # SMART_UNASSIGNED
              THEN BDivSmall(devinfo.smart[9], 24) ELSE Dash,
     error |-> IF devinfo.smart[SMART_ERROR] # SMART_UNASSIGNED
               THEN devinfo.smart[SMART_ERROR] ELSE Dash,
     afp |-> Percent(poisson_prob_n_or_more_failures(smart_afr(devinfo.smart), 1)),
     size |-> IF devinfo.smart[SMART_SIZE] # SMART_UNASSIGNED
              THEN DDiv(DOfBig(devinfo.smart[SMART_SIZE]),
                        DOfBig(Groups(<< 1, 0000, 0000, 0000 >>)))
              ELSE Dash,
     serial |-> IF devinfo.smart_serial # << >> THEN devinfo.smart_serial ELSE Dash,
     file |-> IF devinfo.file # << >> THEN devinfo.file ELSE Dash,
     name |-> IF devinfo.name # << >> THEN devinfo.name
              ELSE << "-", " ", "(", "n", "o", "t", " ", "i", "n", " ",
                      "s", "t", "a", "t", "s", ")" >>]

\* A faulty RowAfr: the rate is added once per physical device.
RowAfrPhysical(sum, devinfo) ==
    IF devinfo.parent = 0 THEN DAdd(sum, smart_afr(devinfo.smart)) ELSE sum

\* use only afr of disks in the array
RowAfr(sum, devinfo) ==
    IF devinfo.parent # 0 THEN DAdd(sum, smart_afr(devinfo.smart)) ELSE sum

\* The repair cadences of the table, in days: 1 week, 1 month, 3 months.
Cadences == << 7, 30, 90 >>

\* 365.0 / 7, 365.0 / 30, 365.0 / 90
ReplaceRate(c) == DDiv(DOfNat(365), DOfNat(Cadences[c]))

\* The three calls of one row of the data-loss table, for parity j + 1.
TableCalls(afr, n, jj) ==
    [c \in 1..3 |->
        LET replace_rate == ReplaceRate(c)
        IN  [array_failure_rate |-> afr, replace_rate |-> replace_rate,
             n |-> n, redundancy |-> jj + 1,
             ret |-> raid_prob_of_one_or_more_failures(afr, replace_rate, n, jj + 1)]]

\* A faulty ArrayCount: the parities are not counted.
ArrayCountDisksOnly(st) == Len(st.disklist)

\* count the logical disks forming the array
ArrayCount(st) == st.level + Len(st.disklist)

\* state_device() calling state_smart(count, &low), and state_smart() up to
\* the first row: the paddings and the header.
SmartBegin ==
    /\ pc = "smart" /\ operation = DEVICE_SMART
    /\ count' = ArrayCount(state)
    /\ out' = Append(out, [t |-> "smart_header",
                           device_pad |-> MaxLen(low, "file", Len(low)),
                           serial_pad |-> MaxLen(low, "smart_serial", Len(low))])
    /\ array_failure_rate' = DZero
    /\ i' = 1
    /\ pc' = "rows"
    /\ UNCHANGED << state, operation, high, low, j, err, queries, calls, freed,
                    fin, fout >>
    /\ UNCHANGED dirvars

\* The report begun whatever the operation.
SmartAnyOperation ==
    /\ pc = "smart"
    /\ count' = ArrayCount(state)
    /\ out' = Append(out, [t |-> "smart_header",
                           device_pad |-> MaxLen(low, "file", Len(low)),
                           serial_pad |-> MaxLen(low, "smart_serial", Len(low))])
    /\ array_failure_rate' = DZero
    /\ i' = 1
    /\ pc' = "rows"
    /\ UNCHANGED << state, operation, high, low, j, err, queries, calls, freed,
                    fin, fout >>
    /\ UNCHANGED dirvars

SmartSkip ==
    /\ pc = "smart" /\ operation # DEVICE_SMART
    /\ pc' = "free_high"
    /\ UNCHANGED << state, operation, high, low, i, j, out, err, queries, count,
                    array_failure_rate, calls, freed, fin, fout >>
    /\ UNCHANGED dirvars

\* One device of the report.
SmartRow ==
    /\ pc = "rows" /\ i <= Len(low)
    /\ array_failure_rate' = RowAfr(array_failure_rate, low[i])
    /\ out' = Append(out, SmartRowOf(low[i]))
    /\ i' = i + 1
    /\ UNCHANGED << state, operation, pc, high, low, j, err, queries, count,
                    calls, freed, fin, fout >>
    /\ UNCHANGED dirvars

\* After the last device: the probability of at least one failure.
SmartSummary ==
    /\ pc = "rows" /\ i > Len(low)
    /\ out' = Append(out,
          [t |-> "smart_summary",
           p_at_least_one_failure |->
               Percent(poisson_prob_n_or_more_failures(array_failure_rate, 1))])
    /\ j' = 0
    /\ pc' = "table"
    /\ UNCHANGED << state, operation, high, low, i, err, queries, count,
                    array_failure_rate, calls, freed, fin, fout >>
    /\ UNCHANGED dirvars

\* One parity level of the data-loss table.
SmartTableRow ==
    /\ pc = "table" /\ j < RAID_PARITY_MAX
    /\ calls' = calls \o TableCalls(array_failure_rate, count, j)
    /\ out' = Append(out, [t |-> "smart_table", parity |-> j + 1,
                           week |-> Percent(calls'[Len(calls) + 1].ret),
                           month |-> Percent(calls'[Len(calls) + 2].ret),
                           months3 |-> Percent(calls'[Len(calls) + 3].ret)])
    /\ j' = j + 1
    /\ UNCHANGED << state, operation, pc, high, low, i, err, queries, count,
                    array_failure_rate, freed, fin, fout >>
    /\ UNCHANGED dirvars

SmartEnd ==
    /\ pc = "table" /\ j >= RAID_PARITY_MAX
    /\ out' = Append(out, [t |-> "smart_footer"])
    /\ pc' = "free_high"
    /\ UNCHANGED << state, operation, high, low, i, j, err, queries, count,
                    array_failure_rate, calls, freed, fin, fout >>
    /\ UNCHANGED dirvars

(***************************************************************************)
(* state_device(): the dispatcher.                                         *)
(***************************************************************************)
\* The operation as the diagnostic names it.
OperationName(op) ==
    CASE op = DEVICE_UP -> "Spinup"
      [] op = DEVICE_DOWN -> "Spindown"
      [] op = DEVICE_LIST -> "List"
      [] op = DEVICE_SMART -> "SMART"

\* The status line, and the two empty lists.
Start ==
    /\ pc = "start"
    /\ out' = CASE operation = DEVICE_UP ->
                     Append(out, [t |-> "status", text |-> "Spinup..."])
                [] operation = DEVICE_DOWN ->
                     Append(out, [t |-> "status", text |-> "Spindown..."])
                [] OTHER -> out
    /\ high' = << >>
    /\ low' = << >>
    /\ i' = 1
    /\ pc' = "disks"
    /\ UNCHANGED << state, operation, j, err, queries, count,
                    array_failure_rate, calls, freed, fin, fout >>
    /\ UNCHANGED dirvars

\* for all disks: one entry of the requested list
AddDisk ==
    /\ pc = "disks" /\ i <= Len(state.disklist)
    /\ LET disk == state.disklist[i]
       IN  high' = Append(high, [ZeroEntry EXCEPT !.device = disk.device,
                                                  !.name = disk.name,
                                                  !.mount = disk.dir])
    /\ i' = i + 1
    /\ UNCHANGED << state, operation, pc, low, j, out, err, queries, count,
                    array_failure_rate, calls, freed, fin, fout >>
    /\ UNCHANGED dirvars

DisksDone ==
    /\ pc = "disks" /\ i > Len(state.disklist)
    /\ j' = 0
    /\ pc' = "parities"
    /\ UNCHANGED << state, operation, high, low, i, out, err, queries, count,
                    array_failure_rate, calls, freed, fin, fout >>
    /\ UNCHANGED dirvars

\* for all parities: one entry of the requested list
AddParity ==
    /\ pc = "parities" /\ j < state.level
    /\ high' = Append(high, [ZeroEntry EXCEPT
                                !.device = state.parity[j + 1].device,
                                !.name = lev_config_name(j),
                                !.mount = pathcut(state.parity[j + 1].path)])
    /\ j' = j + 1
    /\ UNCHANGED << state, operation, pc, low, i, out, err, queries, count,
                    array_failure_rate, calls, freed, fin, fout >>
    /\ UNCHANGED dirvars

\* The parities left aside: the loop ends before its first entry.
ParitiesNone ==
    /\ pc = "parities"
    /\ pc' = "query"
    /\ UNCHANGED << state, operation, high, low, i, j, out, err, queries, count,
                    array_failure_rate, calls, freed, fin, fout >>
    /\ UNCHANGED dirvars

ParitiesDone ==
    /\ pc = "parities" /\ j >= state.level
    /\ pc' = "query"
    /\ UNCHANGED << state, operation, high, low, i, j, out, err, queries, count,
                    array_failure_rate, calls, freed, fin, fout >>
    /\ UNCHANGED dirvars

\* if (devquery(&high, &low, operation) != 0) { ... unsupported ... }
DevQuery ==
    /\ pc = "query"
    /\ \E r \in devquery(high, operation) :
          /\ low' = r[2]
          /\ queries' = Append(queries, [operation |-> operation, ret |-> r[1],
                                         requested |-> Len(high)])
          /\ err' = IF r[1] # 0
                    THEN Append(err, [t |-> "unsupported",
                                      operation |-> OperationName(operation)])
                    ELSE err
    /\ i' = 1
    /\ pc' = "list"
    /\ UNCHANGED << state, operation, high, j, out, count,
                    array_failure_rate, calls, freed, fin, fout >>
    /\ UNCHANGED dirvars

\* One line of DEVICE_LIST.  The line reads parent->device, parent->file and
\* parent->name whatever parent is: for a record without parent this is a
\* null pointer dereference, after which the program has crashed or has
\* printed whatever it read.
ListLine ==
    /\ pc = "list" /\ operation = DEVICE_LIST /\ i <= Len(low)
    /\ LET devinfo == low[i]
           line(pdevice, pfile, pname) ==
               [t |-> "list", device |-> devinfo.device, file |-> devinfo.file,
                pdevice |-> pdevice, pfile |-> pfile, pname |-> pname]
       IN  IF devinfo.parent # 0
           THEN /\ out' = Append(out, line(low[devinfo.parent].device,
                                           low[devinfo.parent].file,
                                           low[devinfo.parent].name))
                /\ i' = i + 1
                /\ pc' = pc
           ELSE \/ /\ pc' = "crashed"
                   /\ UNCHANGED << out, i >>
                \/ /\ out' = Append(out, line("garbage", "garbage", "garbage"))
                   /\ i' = i + 1
                   /\ pc' = pc
    /\ UNCHANGED << state, operation, high, low, j, err, queries, count,
                    array_failure_rate, calls, freed, fin, fout >>
    /\ UNCHANGED dirvars

ListDone ==
    /\ pc = "list" /\ (operation # DEVICE_LIST \/ i > Len(low))
    /\ pc' = "smart"
    /\ UNCHANGED << state, operation, high, low, i, j, out, err, queries, count,
                    array_failure_rate, calls, freed, fin, fout >>
    /\ UNCHANGED dirvars

\* A traversal that releases nothing.
ForeachFreeNothing(released, list) == released

\* tommy_list_foreach(list, free): free() is called once on each record of
\* the list; released[k] counts the calls of free() on record k so far (no
\* entry: none).
tommy_list_foreach_free(released, list) ==
    [k \in 1..Len(list) |->
        (IF k \in DOMAIN released THEN released[k] ELSE 0) + 1]

\* tommy_list_foreach(&high, free);
FreeHigh ==
    /\ pc = "free_high"
    /\ freed' = [freed EXCEPT !.high = tommy_list_foreach_free(@, high)]
    /\ pc' = "free_low"
    /\ UNCHANGED << state, operation, high, low, i, j, out, err, queries, count,
                    array_failure_rate, calls, fin, fout >>
    /\ UNCHANGED dirvars

\* tommy_list_foreach(&low, free);
FreeLow ==
    /\ pc = "free_low"
    /\ freed' = [freed EXCEPT !.low = tommy_list_foreach_free(@, low)]
    /\ pc' = "done"
    /\ UNCHANGED << state, operation, high, low, i, j, out, err, queries, count,
                    array_failure_rate, calls, fin, fout >>
    /\ UNCHANGED dirvars

\* errno is kept by name; this is errno == 0.
NoError == "0"

\* No directory stream is in use.
DirIdle ==
    /\ dirstream = [s |-> "none"]
    /\ win = [dir |-> << >>, pos |-> 0, handle |-> "none", closed |-> << >>,
              freed |-> 0, closedir |-> "none"]
    /\ errno = NoError
    /\ reads = << >>

NoPure == [f |-> "none"]

Init ==
    /\ state \in States
    /\ operation \in Operations
    /\ pc = "start"
    /\ high = << >>
    /\ low = << >>
    /\ i = 0
    /\ j = 0
    /\ out = << >>
    /\ err = << >>
    /\ queries = << >>
    /\ count = 0
    /\ array_failure_rate = DZero
    /\ calls = << >>
    /\ freed = [high |-> << >>, low |-> << >>]
    /\ fin = NoPure
    /\ fout = NoPure
    /\ DirIdle

Next ==
    \/ Start
    \/ AddDisk
    \/ DisksDone
    \/ AddParity
    \/ ParitiesDone
    \/ DevQuery
    \/ ListLine
    \/ ListDone
    \/ SmartBegin
    \/ SmartSkip
    \/ SmartRow
    \/ SmartSummary
    \/ SmartTableRow
    \/ SmartEnd
    \/ FreeHigh
    \/ FreeLow

Spec == Init /\ [][Next]_vars

(***************************************************************************)
(* The functions of the risk model applied on their own: one input is      *)
(* drawn, one function is applied to it.                                   *)
(***************************************************************************)
\* Bounds of the inputs: the distance of the counter values tried from the
\* data points of a table, and the largest array.
MaxOffset == 1
MaxMembers == 7

\* The counter values tried on a table: 0, the values at and around each
\* data point, and the largest uint64_t.
Near(b) ==
    { b } \cup { BAdd(b, BigOf(k)) : k \in 1..MaxOffset }
          \cup { BSub(b, BigOf(k)) :
                   k \in { x \in 1..MaxOffset : BCmp(b, BigOf(x)) >= 0 } }

ProbeValues(tab) ==
    { << >>, SMART_UNASSIGNED }
    \cup UNION { Near(tab[k].value) :
                   k \in { x \in DOMAIN tab : tab[x].value # << >> } }

\* The pairs v1 <= v2 of values tried on the table of attribute id.
AfrValuePairs(id) ==
    { pr \in ProbeValues(MonitoredTable(id)) \X ProbeValues(MonitoredTable(id)) :
        BCmp(pr[1], pr[2]) <= 0 }

AfrValueInputs ==
    UNION { { [f |-> "smart_afr_value", tab |-> MonitoredIds[t],
               v1 |-> pr[1], v2 |-> pr[2]] :
                pr \in AfrValuePairs(MonitoredIds[t]) } :
            t \in 1..Len(MonitoredIds) }

\* The value of a monitored attribute in a snapshot tried.
SnapshotValue(id, kind) ==
    CASE kind = "unassigned" -> SMART_UNASSIGNED
      [] kind = "zero" -> << >>
      [] kind = "point" -> MonitoredTable(id)[2].value

\* The snapshots tried: each monitored attribute unassigned, 0, or at the
\* second data point of its table; the other attributes unassigned or set.
SmartAfrInputs ==
    { [f |-> "smart_afr",
       smart |-> [id \in SmartIds |->
                    IF \E k \in 1..Len(MonitoredIds) : MonitoredIds[k] = id
                    THEN SnapshotValue(id, m[id]) ELSE base[id]]] :
        m \in [ { MonitoredIds[k] : k \in 1..Len(MonitoredIds) } ->
                  { "unassigned", "zero", "point" } ],
        base \in { SmartNone, SmartHealthy } }

\* The array failure rates tried: 1/100, 1/50, 1, 20 and 100 per year.
RaidRates ==
    { MkFin(FALSE, BOne, BigOf(100)), MkFin(FALSE, BOne, BigOf(50)),
      DOne, DOfNat(20), DOfNat(100) }

RaidInputs ==
    { [f |-> "raid", array_failure_rate |-> a, n |-> n] :
        a \in RaidRates, n \in 1..MaxMembers }

\* The probabilities in percent tried on printp: 0, each threshold of
\* printp, the values one thousandth of it below and above it, values that
\* round up to one more digit, two ties (0.125, 0.375), and values up to
\* 100.
PrintpAround(t) ==
    { t, DMul(t, Dec(0, << 9990 >>)), DMul(t, Dec(1, << 10 >>)) }

PrintpValues ==
    UNION { PrintpAround(PrintpRows[k].above) : k \in 1..Len(PrintpRows) }
    \cup { DZero, Dec(0, << 0, 0, 0, 1000 >>), Dec(0, << 1250 >>),
           Dec(0, << 3750 >>), Dec(0, << 5000 >>), Dec(9, << 9960 >>),
           DOfNat(50), Dec(99, << 9949 >>), Dec(99, << 9990 >>),
           DOfNat(100) }

\* The paddings tried: none, and those of the table of state_smart.
PrintpPads == {0, 14, 18, 20}

PrintpInputs ==
    { [f |-> "printp", v |-> v, pad |-> pad] :
        v \in PrintpValues, pad \in PrintpPads }

\* The redundancies tried for an array of n disks: 0 <= redundancy < n.
MaxRedundancy(n) == Min(n - 1, RAID_PARITY_MAX)

\* The variables of state_device stay as they are before it is called.
Idle ==
    /\ state = [disklist |-> << >>, level |-> 0, parity |-> << >>]
    /\ operation = DEVICE_LIST
    /\ high = << >>
    /\ low = << >>
    /\ i = 0
    /\ j = 0
    /\ out = << >>
    /\ err = << >>
    /\ queries = << >>
    /\ count = 0
    /\ array_failure_rate = DZero
    /\ calls = << >>
    /\ freed = [high |-> << >>, low |-> << >>]

PureInit ==
    /\ Idle
    /\ DirIdle
    /\ pc = "pure"
    /\ fin \in AfrValueInputs \cup SmartAfrInputs \cup RaidInputs
                \cup PrintpInputs
    /\ fout = NoPure

\* smart_afr_value(tab, v1) and smart_afr_value(tab, v2)
ApplyAfrValue ==
    /\ pc = "pure" /\ fin.f = "smart_afr_value"
    /\ fout' = [r1 |-> smart_afr_value(MonitoredTable(fin.tab), fin.v1),
                r2 |-> smart_afr_value(MonitoredTable(fin.tab), fin.v2)]
    /\ pc' = "applied"
    /\ UNCHANGED << state, operation, high, low, i, j, out, err, queries, count,
                    array_failure_rate, calls, freed, fin >>
    /\ UNCHANGED dirvars

\* smart_afr(smart)
ApplySmartAfr ==
    /\ pc = "pure" /\ fin.f = "smart_afr"
    /\ fout' = smart_afr(fin.smart)
    /\ pc' = "applied"
    /\ UNCHANGED << state, operation, high, low, i, j, out, err, queries, count,
                    array_failure_rate, calls, freed, fin >>
    /\ UNCHANGED dirvars

\* raid_prob_of_one_or_more_failures(array_failure_rate, replace_rate, n,
\* redundancy) for each redundancy below n and each of the three cadences.
ApplyRaid ==
    /\ pc = "pure" /\ fin.f = "raid"
    /\ fout' = [x \in (0..MaxRedundancy(fin.n)) \X (1..3) |->
                  raid_prob_of_one_or_more_failures(
                      fin.array_failure_rate, ReplaceRate(x[2]), fin.n, x[1])]
    /\ pc' = "applied"
    /\ UNCHANGED << state, operation, high, low, i, j, out, err, queries, count,
                    array_failure_rate, calls, freed, fin >>
    /\ UNCHANGED dirvars

\* printp(v, pad)
ApplyPrintp ==
    /\ pc = "pure" /\ fin.f = "printp"
    /\ fout' = [printed |-> printp(fin.v, fin.pad)]
    /\ pc' = "applied"
    /\ UNCHANGED << state, operation, high, low, i, j, out, err, queries, count,
                    array_failure_rate, calls, freed, fin >>
    /\ UNCHANGED dirvars

PureNext ==
    \/ ApplyAfrValue
    \/ ApplySmartAfr
    \/ ApplyRaid
    \/ ApplyPrintp

SpecPure == PureInit /\ [][PureNext]_vars

(***************************************************************************)
(* mingw.c: windows_opendir(), windows_readdir() and windows_closedir()    *)
(* over FindFirstFileW, FindNextFileW and FindClose.  The directory is     *)
(* the sequence of its entries in the order the find handle delivers       *)
(* them; the path given to windows_opendir is not modelled.                *)
(***************************************************************************)
\* Bounds: the entries of a directory, the calls of windows_readdir made
\* beyond one per entry, and sizeof(dirent->d_name) (scaled down).
MaxEntries == 2
MaxPastEnd == 2
DNameSize == 5

\* A file name is a sequence of UTF-16 units; u16tou8() converts it to
\* bytes, two for U+00E9.
Utf8Of(unit) == IF unit = "U+00E9" THEN << "0xC3", "0xA9" >> ELSE << unit >>

RECURSIVE u16tou8(_)
u16tou8(w) == IF w = << >> THEN << >> ELSE Utf8Of(Head(w)) \o u16tou8(Tail(w))

\* The file names tried: of 1, 1, 3 and 4 bytes in UTF-8.
FileNames ==
    { << "a" >>, << "b" >>, << "U+00E9", "a" >>, << "a", "b", "U+00E9" >> }

RECURSIVE Directories(_)
\* The directories of at most len entries, all of different names.
Directories(len) ==
    IF len = 0 THEN { << >> }
    ELSE Directories(len - 1)
         \cup { Append(x[1], x[2]) :
                  x \in { y \in Directories(len - 1) \X FileNames :
                            /\ Len(y[1]) = len - 1
                            /\ \A m \in 1..Len(y[1]) : y[1][m] # y[2] } }

INVALID_HANDLE_VALUE == "INVALID_HANDLE_VALUE"
FindHandle == "handle"

\* A null pointer returned, and memory that was not written yet.
Null == [null |-> TRUE]
Uninit == [uninit |-> TRUE]

\* What FindFirstFileW(wdir, &data) may answer on a directory: the first
\* entry and a handle; ERROR_FILE_NOT_FOUND where there is no entry; or
\* another error.
FindFirstFileW(dir) ==
    (IF dir = << >>
     THEN { [h |-> INVALID_HANDLE_VALUE, error |-> "ERROR_FILE_NOT_FOUND"] }
     ELSE { [h |-> FindHandle, data |-> [cFileName |-> dir[1]]] })
    \cup { [h |-> INVALID_HANDLE_VALUE, error |-> e] :
             e \in {"ERROR_ACCESS_DENIED", "ERROR_PATH_NOT_FOUND"} }

\* What FindNextFileW(h, &data) may answer after pos entries: the next
\* entry, ERROR_NO_MORE_FILES after the last one, or an error of the device.
FindNextFileW(dir, pos) ==
    (IF pos < Len(dir)
     THEN { [ok |-> TRUE, data |-> [cFileName |-> dir[pos + 1]]] }
     ELSE { [ok |-> FALSE, error |-> "ERROR_NO_MORE_FILES"] })
    \cup { [ok |-> FALSE, error |-> "ERROR_IO_DEVICE"] }

\* windows_errno(error): the errno set, and what is written to stderr.
windows_errno(error) ==
    CASE error = "ERROR_INVALID_HANDLE" -> [errno |-> "EBADF", msgs |-> << >>]
      [] error = "ERROR_FILE_NOT_FOUND" -> [errno |-> "ENOENT", msgs |-> << >>]
      [] error = "ERROR_ACCESS_DENIED" -> [errno |-> "EACCES", msgs |-> << >>]
      [] error = "ERROR_BUFFER_OVERFLOW" ->
           [errno |-> "ENAMETOOLONG", msgs |-> << >>]
      [] error = "ERROR_NOT_ENOUGH_MEMORY" ->
           [errno |-> "ENOMEM", msgs |-> << >>]
      [] OTHER ->
           [errno |-> "EIO",
            msgs |-> << [t |-> "Unexpected Windows error", error |-> error] >>]

\* windows_finddata2dirent(info, dirent): the dirent written, or the exit
\* of the process on a name that d_name cannot hold.
windows_finddata2dirent(info) ==
    IF Len(u16tou8(info.cFileName)) + 1 >= DNameSize
    THEN [exit |-> TRUE, msgs |-> << [t |-> "Name too long"] >>]
    ELSE [exit |-> FALSE, dirent |-> [d_name |-> u16tou8(info.cFileName)]]

\* The windows_dir after FindFirstFileW answered f.
DirstreamOf(f, flags, buffer) ==
    [s |-> "open", h |-> f.h, flags |-> flags,
     data |-> IF f.h = INVALID_HANDLE_VALUE THEN Uninit ELSE f.data,
     buffer |-> buffer]

\* This stream never holds the first entry back.
ReaddirNeverFetched(ds) == FALSE

\* if (dirstream->flags == 1): the entry windows_opendir fetched is still
\* to be returned.
ReaddirFetched(ds) == ds.flags = 1

\* windows_opendir(dir)
WindowsOpendir ==
    /\ pc = "opendir"
    /\ \/ \* malloc() failed
          /\ err' = Append(err, [t |-> "Low memory"])
          /\ pc' = "exited"
          /\ UNCHANGED << dirstream, win, errno >>
       \/ \E f \in FindFirstFileW(win.dir) :
             IF f.h = INVALID_HANDLE_VALUE
             THEN IF f.error = "ERROR_FILE_NOT_FOUND"
                  THEN /\ dirstream' = DirstreamOf(f, -1, Uninit)
                       /\ pc' = "readdir"
                       /\ UNCHANGED << win, errno, err >>
                  ELSE /\ dirstream' = [s |-> "freed"]
                       /\ win' = [win EXCEPT !.freed = @ + 1]
                       /\ errno' = windows_errno(f.error).errno
                       /\ err' = err \o windows_errno(f.error).msgs
                       /\ pc' = "failed"
             ELSE /\ win' = [win EXCEPT !.handle = "open", !.pos = 1]
                  /\ errno' = errno
                  /\ IF windows_finddata2dirent(f.data).exit
                     THEN /\ dirstream' = DirstreamOf(f, 1, Uninit)
                          /\ err' = err \o windows_finddata2dirent(f.data).msgs
                          /\ pc' = "exited"
                     ELSE /\ dirstream' =
                               DirstreamOf(f, 1,
                                           windows_finddata2dirent(f.data).dirent)
                          /\ err' = err
                          /\ pc' = "readdir"
    /\ reads' = reads
    /\ UNCHANGED << state, operation, high, low, i, j, out, queries, count,
                    array_failure_rate, calls, freed, fin, fout >>

\* windows_readdir(dirstream); what it returned, errno as it left it, and
\* what FindNextFileW answered if it was called, are appended to reads.
WindowsReaddir ==
    /\ pc = "readdir"
    /\ Len(reads) < Len(win.dir) + MaxPastEnd
    /\ IF dirstream.flags = -1
       THEN /\ errno' = NoError
            /\ reads' = Append(reads, [ret |-> Null, errno |-> NoError,
                                       find |-> "none"])
            /\ UNCHANGED << dirstream, win, err, pc >>
       ELSE IF ReaddirFetched(dirstream)
       THEN /\ dirstream' = [dirstream EXCEPT !.flags = 0]
            /\ reads' = Append(reads, [ret |-> dirstream.buffer,
                                       errno |-> errno, find |-> "none"])
            /\ UNCHANGED << win, errno, err, pc >>
       ELSE \E f \in FindNextFileW(win.dir, win.pos) :
               IF ~f.ok
               THEN /\ errno' = IF f.error = "ERROR_NO_MORE_FILES"
                                THEN NoError
                                ELSE windows_errno(f.error).errno
                    /\ err' = IF f.error = "ERROR_NO_MORE_FILES"
                              THEN err
                              ELSE err \o windows_errno(f.error).msgs
                    /\ reads' = Append(reads, [ret |-> Null, errno |-> errno',
                                               find |-> f.error])
                    /\ UNCHANGED << dirstream, win, pc >>
               ELSE /\ win' = [win EXCEPT !.pos = @ + 1]
                    /\ errno' = errno
                    /\ IF windows_finddata2dirent(f.data).exit
                       THEN /\ dirstream' = [dirstream EXCEPT !.data = f.data]
                            /\ err' = err
                                      \o windows_finddata2dirent(f.data).msgs
                            /\ reads' = reads
                            /\ pc' = "exited"
                       ELSE /\ dirstream' =
                                 [dirstream EXCEPT
                                    !.data = f.data,
                                    !.buffer =
                                       windows_finddata2dirent(f.data).dirent]
                            /\ err' = err
                            /\ reads' = Append(reads,
                                               [ret |-> dirstream'.buffer,
                                                errno |-> errno,
                                                find |-> "found"])
                            /\ pc' = pc
    /\ UNCHANGED << state, operation, high, low, i, j, out, queries, count,
                    array_failure_rate, calls, freed, fin, fout >>

\* windows_closedir(dirstream): FindClose() may fail.
WindowsClosedir ==
    /\ pc = "readdir"
    /\ IF dirstream.h # INVALID_HANDLE_VALUE
       THEN \E closed \in BOOLEAN :
               /\ win' = [win EXCEPT
                            !.closed = Append(@, dirstream.h),
                            !.handle = IF closed THEN "closed" ELSE @,
                            !.freed = @ + 1,
                            !.closedir = IF closed THEN "0" ELSE "-1"]
               /\ errno' = IF closed THEN errno
                           ELSE windows_errno("ERROR_INVALID_HANDLE").errno
       ELSE /\ win' = [win EXCEPT !.freed = @ + 1, !.closedir = "0"]
            /\ errno' = errno
    /\ dirstream' = [s |-> "freed"]
    /\ pc' = "closed"
    /\ UNCHANGED << reads, err >>
    /\ UNCHANGED << state, operation, high, low, i, j, out, queries, count,
                    array_failure_rate, calls, freed, fin, fout >>

\* A program about to open a directory; errno is 0 or what an earlier call
\* left.
DirInit ==
    /\ Idle
    /\ fin = NoPure
    /\ fout = NoPure
    /\ pc = "opendir"
    /\ dirstream = [s |-> "none"]
    /\ win \in { [dir |-> d, pos |-> 0, handle |-> "none", closed |-> << >>,
                  freed |-> 0, closedir |-> "none"] :
                   d \in Directories(MaxEntries) }
    /\ errno \in {NoError, "EEXIST"}
    /\ reads = << >>

DirNext ==
    \/ WindowsOpendir
    \/ WindowsReaddir
    \/ WindowsClosedir

SpecDir == DirInit /\ [][DirNext]_vars

(***************************************************************************)
(* Properties of state_smart and state_device (under Spec).                *)
(***************************************************************************)
\* state_smart has summed the rates of all the rows.
RowsDone == operation = DEVICE_SMART
            /\ pc \in {"table", "free_high", "free_low", "done"}

RECURSIVE SumWithParent(_, _)
\* The sum of smart_afr over the records 1..k of list that have a parent.
SumWithParent(list, k) ==
    IF k = 0 THEN DZero
    ELSE IF list[k].parent # 0
    THEN DAdd(SumWithParent(list, k - 1), smart_afr(list[k].smart))
    ELSE SumWithParent(list, k - 1)

\* The records of list without parent.
Parentless(list) == { k \in 1..Len(list) : list[k].parent = 0 }

\* C1: in a SMART report the array failure rate, and the rate passed to
\* every call of raid_prob_of_one_or_more_failures, is the sum of smart_afr
\* over exactly the resolved records that have a parent; records without a
\* parent add nothing.
C1_ArrayRateSumsRecordsWithParent ==
    /\ RowsDone => DEq(array_failure_rate, SumWithParent(low, Len(low)))
    /\ \A k \in 1..Len(calls) :
          RowsDone /\ calls[k].array_failure_rate = array_failure_rate

\* C1, its case: two members of the array on one physical device with a
\* positive rate; the rate passed to the loss model is twice the rate of
\* that device.
C1_Witness ==
    /\ pc = "done" /\ Len(calls) > 0
    /\ Len(high) = 2 /\ Len(low) = 3
    /\ Cardinality(Parentless(low)) = 1
    /\ \A k \in 1..Len(low) :
          k \notin Parentless(low) => low[k].parent \in Parentless(low)
    /\ DLess(DZero, smart_afr(low[1].smart))
    /\ DEq(calls[1].array_failure_rate,
           DMul(DOfNat(2), smart_afr(low[1].smart)))

\* C2: every call of raid_prob_of_one_or_more_failures made by the SMART
\* report has redundancy < n, so that no divisor n - i of the loop over
\* i = 0..redundancy is below 1.
C2_RedundancyBelowMembers ==
    \A k \in 1..Len(calls) : calls[k].redundancy < calls[k].n

\* C5: a call of raid_prob_of_one_or_more_failures with array failure rate 0
\* returns 0; a finished SMART report whose array failure rate is 0 has made
\* such a call for every parity 1..RAID_PARITY_MAX and every cadence.
C5_ZeroRateZeroLoss ==
    /\ \A k \in 1..Len(calls) :
          IsZero(calls[k].array_failure_rate)
              => ~IsExp(calls[k].ret) /\ IsZero(calls[k].ret)
    /\ (pc = "done" /\ operation = DEVICE_SMART /\ IsZero(array_failure_rate))
          => \A r \in 1..RAID_PARITY_MAX : \A c \in 1..3 :
                \E k \in 1..Len(calls) :
                    /\ calls[k].redundancy = r
                    /\ DEq(calls[k].replace_rate, ReplaceRate(c))
                    /\ IsZero(calls[k].array_failure_rate)
                    /\ IsZero(calls[k].ret)

\* C5, its case: every resolved device reports only unassigned attributes,
\* the report is finished and each of its 3 * RAID_PARITY_MAX results is 0.
C5_Witness ==
    /\ pc = "done" /\ operation = DEVICE_SMART
    /\ Len(low) > 0
    /\ \A k \in 1..Len(low) : low[k].smart = SmartNone
    /\ Len(calls) = 3 * RAID_PARITY_MAX
    /\ \A k \in 1..Len(calls) : IsZero(calls[k].ret)

\* C9: the n passed to raid_prob_of_one_or_more_failures is the number of
\* disks plus the number of parities, which is the length of the requested
\* list, whatever the resolved list holds.
C9_MemberCountIsRequestedLength ==
    /\ \A k \in 1..Len(calls) :
          /\ calls[k].n = Len(state.disklist) + state.level
          /\ calls[k].n = Len(high)
    /\ (operation = DEVICE_SMART /\ pc \in {"rows", "table"})
          => count = Len(high)

\* C9, its case: a finished report over an empty resolved list, for an
\* array of at least two members.
C9_Witness ==
    /\ pc = "done" /\ Len(calls) > 0
    /\ low = << >>
    /\ Len(high) >= 2
    /\ calls[Len(calls)].n = Len(high)

\* What was printed by DEVICE_LIST and by state_smart.
ListLines == { k \in 1..Len(out) : out[k].t = "list" }
SmartLines ==
    { k \in 1..Len(out) :
        out[k].t \in {"smart_header", "smart_row", "smart_summary",
                      "smart_table", "smart_footer"} }

\* C10: when devquery reports the operation as unsupported, state_device
\* ends normally having printed one diagnostic that names the operation,
\* no list line and nothing of the SMART report, and having made no call of
\* raid_prob_of_one_or_more_failures.
C10_UnsupportedSkipsSections ==
    (pc = "done" /\ Len(queries) = 1 /\ queries[1].ret # 0)
        => /\ Len(err) = 1
           /\ err[1].t = "unsupported"
           /\ err[1].operation = OperationName(operation)
           /\ ListLines = {}
           /\ SmartLines = {}
           /\ calls = << >>

\* The number of calls of free() on record k of a list.
Releases(released, k) == IF k \in DOMAIN released THEN released[k] ELSE 0

\* state_device is past its last statement that reads the requested list
\* (past the last that reads the resolved list).
PastHigh == pc \in {"free_low", "done"}
PastLow == pc = "done"

BeforeQuery == pc \in {"start", "disks", "parities", "query"}
AfterQuery ==
    pc \in {"list", "smart", "rows", "table", "free_high", "free_low", "done",
            "crashed"}

\* The requested list is complete: the disks in the order of the disk
\* list, then the parities by level.
RequestedComplete ==
    /\ Len(high) = Len(state.disklist) + state.level
    /\ \A m \in 1..Len(state.disklist) :
          /\ high[m].name = state.disklist[m].name
          /\ high[m].device = state.disklist[m].device
    /\ \A m \in 1..state.level :
          /\ high[Len(state.disklist) + m].name = lev_config_name(m - 1)
          /\ high[Len(state.disklist) + m].device = state.parity[m].device

\* C12: state_device calls devquery once and no more: no call is made while
\* the requested list is built, the one call is made for the operation
\* asked and on the complete requested list (every disk, then every
\* parity), whatever it answers no second call follows, and before it no
\* list line is printed, no row of the report is computed and
\* raid_prob_of_one_or_more_failures is not called.
C12_DevqueryOnceAfterRequestedList ==
    /\ BeforeQuery \/ AfterQuery
    /\ BeforeQuery
          => /\ queries = << >>
             /\ ListLines = {} /\ SmartLines = {}
             /\ calls = << >>
             /\ array_failure_rate = DZero
    /\ AfterQuery
          => /\ Len(queries) = 1
             /\ queries[1].operation = operation
             /\ queries[1].requested = Len(high)
             /\ RequestedComplete

\* C12, its case: a finished SMART report that devquery supported, for an
\* array of at least three members: rows and table came after the one call.
C12_Witness ==
    /\ pc = "done" /\ operation = DEVICE_SMART
    /\ Len(queries) = 1 /\ queries[1].ret = 0
    /\ queries[1].requested >= 3
    /\ calls # << >> /\ SmartLines # {}

\* The records of list with a parent, in the order of the list.
Logical(list) == SelectSeq([k \in 1..Len(list) |-> k],
                           LAMBDA k : list[k].parent # 0)

\* The list lines printed, in the order of printing.
ListOutput == SelectSeq(out, LAMBDA l : l.t = "list")

\* The list line of record k of low, from the record and its parent.
ListLineOf(k) ==
    [t |-> "list", device |-> low[k].device, file |-> low[k].file,
     pdevice |-> low[low[k].parent].device,
     pfile |-> low[low[k].parent].file,
     pname |-> low[low[k].parent].name]

\* C13: DEVICE_LIST prints exactly one line for each record of the resolved
\* list that has a parent, from the fields of the record and of its parent,
\* in the order of the list; it prints no line for a record without parent
\* and reads no field through the missing parent of such a record (so the
\* program does not stop there either).
C13_OneListLinePerLogicalRecord ==
    /\ pc # "crashed"
    /\ (operation = DEVICE_LIST
          /\ pc \in {"smart", "free_high", "free_low", "done"})
         => /\ Len(ListOutput) = Len(Logical(low))
            /\ \A n \in 1..Len(ListOutput) :
                  ListOutput[n] = ListLineOf(Logical(low)[n])

\* The status lines, and the headers of the SMART report, printed.
StatusLines == { k \in 1..Len(out) : out[k].t = "status" }
SmartHeaders == { k \in 1..Len(out) : out[k].t = "smart_header" }

\* C15: what state_device prints on stdout is selected by the operation
\* alone, whatever devquery answered: list lines for DEVICE_LIST only, the
\* SMART report for DEVICE_SMART only (and then always, once), for
\* DEVICE_UP and DEVICE_DOWN the one status line and nothing else, for the
\* other two no status line; never both list lines and a report.
C15_OutputSelectedByOperation ==
    /\ ListLines # {} => operation = DEVICE_LIST
    /\ SmartLines # {} => operation = DEVICE_SMART
    /\ ~(ListLines # {} /\ SmartLines # {})
    /\ StatusLines # {} => operation \in {DEVICE_UP, DEVICE_DOWN}
    /\ (operation \in {DEVICE_UP, DEVICE_DOWN} /\ pc # "start")
          => /\ Len(out) = 1
             /\ out[1] = [t |-> "status",
                          text |-> IF operation = DEVICE_UP THEN "Spinup..."
                                   ELSE "Spindown..."]
    /\ Cardinality(SmartHeaders) <= 1
    /\ (operation = DEVICE_SMART /\ pc = "done")
          => /\ Cardinality(SmartHeaders) = 1
             /\ out[Len(out)].t = "smart_footer"

\* C15, its case: a spin-down that devquery supported has returned, with
\* its status line as the whole output.
C15_Witness ==
    /\ pc = "done" /\ operation = DEVICE_DOWN
    /\ Len(queries) = 1 /\ queries[1].ret = 0 /\ low # << >>
    /\ Len(out) = 1 /\ out[1].t = "status"

(***************************************************************************)
(* Properties of the functions (under SpecPure).                           *)
(***************************************************************************)
Applied(f) == pc = "applied" /\ fin.f = f

\* The data points of a table: the indices but the last, which is the
\* sentinel.
Points(tab) == { k \in DOMAIN tab : (k + 1) \in DOMAIN tab }

\* The data point just below, and just above, a value between two points.
PointBelow(tab, v) ==
    CHOOSE k \in Points(tab) :
        /\ BCmp(tab[k].value, v) < 0
        /\ \A x \in Points(tab) :
              BCmp(tab[x].value, v) < 0 => BCmp(tab[x].value, tab[k].value) <= 0

PointAbove(tab, v) ==
    CHOOSE k \in Points(tab) :
        /\ BCmp(tab[k].value, v) > 0
        /\ \A x \in Points(tab) :
              BCmp(tab[x].value, v) > 0 => BCmp(tab[x].value, tab[k].value) >= 0

\* The piecewise-linear function through the data points of a table.
PiecewiseLinear(tab, v) ==
    IF v = << >> THEN DZero
    ELSE IF \E k \in Points(tab) : tab[k].value = v
    THEN tab[CHOOSE k \in Points(tab) : tab[k].value = v].afr
    ELSE IF \A k \in Points(tab) : BCmp(tab[k].value, v) < 0
    THEN tab[CHOOSE k \in Points(tab) : (k + 1) \notin Points(tab)].afr
    ELSE LET below == tab[PointBelow(tab, v)]
             above == tab[PointAbove(tab, v)]
         IN  DAdd(below.afr,
                  DDiv(DMul(DOfBig(BSub(v, below.value)),
                            DSub(above.afr, below.afr)),
                       DOfBig(BSub(above.value, below.value))))

\* C6: smart_afr_value(tab, value) is the piecewise-linear function through
\* the data points of tab: 0 at 0, the rate of a point at its value, the
\* last rate beyond the last point, the linear interpolation of the two
\* neighbouring points in between.
C6_InterpolateIsPiecewiseLinear ==
    Applied("smart_afr_value")
        => /\ DEq(fout.r1, PiecewiseLinear(MonitoredTable(fin.tab), fin.v1))
           /\ DEq(fout.r2, PiecewiseLinear(MonitoredTable(fin.tab), fin.v2))

\* C6, its case: attribute 5 at a value strictly between the points 70 and
\* 260, and the result strictly between their rates.
C6_Witness ==
    /\ Applied("smart_afr_value") /\ fin.tab = 5
    /\ BCmp(BigOf(70), fin.v1) < 0 /\ BCmp(fin.v1, BigOf(260)) < 0
    /\ AFR_5[4].value = BigOf(70) /\ AFR_5[5].value = BigOf(260)
    /\ DLess(AFR_5[4].afr, fout.r1) /\ DLess(fout.r1, AFR_5[5].afr)
    /\ fin.v2 = SMART_UNASSIGNED /\ DEq(fout.r2, AFR_5[8].afr)

\* C7 as stated: on each of the six tables, v1 <= v2 gives
\* smart_afr_value(tab, v1) <= smart_afr_value(tab, v2).
C7_MonotoneOnEveryTable ==
    Applied("smart_afr_value") => DLeq(fout.r1, fout.r2)

\* C7: v1 <= v2 gives smart_afr_value(tab, v1) <= smart_afr_value(tab, v2) on
\* the tables of the attributes 187, 188, 193, 197 and 198, and on the table
\* of attribute 5 up to its point 4500 (its next and last point, 17000, has
\* a lower rate).
C7_MonotoneWhereRatesRise ==
    (Applied("smart_afr_value")
     /\ (fin.tab # 5 \/ BCmp(fin.v2, BigOf(4500)) <= 0))
        => DLeq(fout.r1, fout.r2)

\* C7, its case: attribute 5 just below and at 4500, the rate rising.
C7_Witness ==
    /\ Applied("smart_afr_value") /\ fin.tab = 5
    /\ fin.v2 = BigOf(4500) /\ BCmp(fin.v1, fin.v2) < 0
    /\ BCmp(BigOf(1100), fin.v1) < 0
    /\ DLess(fout.r1, fout.r2)

\* The monitored attributes a snapshot assigns.
Assigned(smart) ==
    { k \in 1..Len(MonitoredIds) : smart[MonitoredIds[k]] # SMART_UNASSIGNED }

RECURSIVE SumAssigned(_, _)
\* The sum over the monitored attributes 1..k that are assigned of the
\* interpolated rate of each.
SumAssigned(smart, k) ==
    IF k = 0 THEN DZero
    ELSE IF k \in Assigned(smart)
    THEN DAdd(SumAssigned(smart, k - 1),
              smart_afr_value(MonitoredTable(MonitoredIds[k]),
                              smart[MonitoredIds[k]]))
    ELSE SumAssigned(smart, k - 1)

\* C8: smart_afr(smart) is the sum over the attributes 5, 187, 188, 193, 197
\* and 198 that are assigned of smart_afr_value of their table and value;
\* it is 0 when none is assigned, the one rate when one is assigned, never
\* negative, and no other attribute changes it.
C8_DeviceRateSumsAssignedMonitored ==
    Applied("smart_afr")
        => /\ DEq(fout, SumAssigned(fin.smart, Len(MonitoredIds)))
           /\ DLeq(DZero, fout)
           /\ Assigned(fin.smart) = {} => IsZero(fout)
           /\ \A k \in 1..Len(MonitoredIds) :
                 Assigned(fin.smart) = {k}
                     => DEq(fout, smart_afr_value(MonitoredTable(MonitoredIds[k]),
                                                  fin.smart[MonitoredIds[k]]))
           /\ DEq(fout, smart_afr([id \in SmartIds |->
                                     IF id \in {9, 190, 194, SMART_ERROR, SMART_SIZE}
                                     THEN SMART_UNASSIGNED ELSE fin.smart[id]]))

\* C8, its case: a snapshot that assigns one monitored attribute (197, with
\* a positive rate) and other attributes, the rest unassigned.
C8_Witness ==
    /\ Applied("smart_afr")
    /\ Assigned(fin.smart) = {5}
    /\ fin.smart[9] # SMART_UNASSIGNED
    /\ fin.smart[198] = SMART_UNASSIGNED
    /\ DLess(DZero, fout)
    /\ DEq(fout, smart_afr_value(AFR_197, fin.smart[197]))

\* (n - redundancy - 1) * array_failure_rate < n * replace_rate: the rate
\* of data loss 1/MTTDL at redundancy + 1 is the one at redundancy times
\* (n - redundancy - 1) * array_failure_rate / (n * replace_rate).
LossRateFalls(afr, replace_rate, n, redundancy) ==
    DLess(DMul(DOfNat(n - redundancy - 1), afr),
          DMul(DOfNat(n), replace_rate))

\* C3 as stated: for redundancy + 1 < n the result at redundancy + 1 is
\* strictly less than the result at redundancy.
C3_StrictlyDecreasingInRedundancy ==
    Applied("raid")
        => \A r \in 0..(MaxRedundancy(fin.n) - 1) : \A c \in 1..3 :
              VLess(fout[<< r + 1, c >>], fout[<< r, c >>])

\* C3: for redundancy + 1 < n, where (n - redundancy - 1) *
\* array_failure_rate < n * replace_rate the result at redundancy + 1 is
\* not larger than the result at redundancy, and strictly less unless the
\* two round to one double (both 0, both 1); elsewhere it is not less.
C3_DecreasingWhileRepairOutpacesFailure ==
    Applied("raid")
        => \A r \in 0..(MaxRedundancy(fin.n) - 1) : \A c \in 1..3 :
              IF LossRateFalls(fin.array_failure_rate, ReplaceRate(c), fin.n, r)
              THEN /\ VLeq(fout[<< r + 1, c >>], fout[<< r, c >>])
                   /\ \/ VLess(fout[<< r + 1, c >>], fout[<< r, c >>])
                      \/ SameRounded(fout[<< r + 1, c >>], fout[<< r, c >>])
              ELSE VLeq(fout[<< r, c >>], fout[<< r + 1, c >>])

\* C3, its case: 4 members, array failure rate 0.02, weekly repair; the
\* result at redundancy 2 is strictly less than at redundancy 1.
C3_Witness ==
    /\ Applied("raid") /\ fin.n = 4
    /\ DEq(fin.array_failure_rate, MkFin(FALSE, BigOf(2), BigOf(100)))
    /\ LossRateFalls(fin.array_failure_rate, ReplaceRate(1), fin.n, 1)
    /\ VLess(fout[<< 2, 1 >>], fout[<< 1, 1 >>])
    /\ ~SameRounded(fout[<< 2, 1 >>], fout[<< 1, 1 >>])

\* C4 as stated: for every redundancy 0 <= redundancy < n, the result with
\* the smaller replace_rate (the longer repair interval) is strictly larger.
C4_StrictlyIncreasingInRepairInterval ==
    Applied("raid")
        => \A r \in 0..MaxRedundancy(fin.n) : \A c \in 1..2 :
              VLess(fout[<< r, c >>], fout[<< r, c + 1 >>])

\* C4: for 1 <= redundancy < n the result with the smaller replace_rate is
\* not smaller, and strictly larger unless the two round to one double
\* (both 0, both 1); at redundancy 0 the result does not depend on
\* replace_rate.
C4_IncreasingInRepairIntervalFromRedundancyOne ==
    Applied("raid")
        => \A r \in 0..MaxRedundancy(fin.n) : \A c \in 1..2 :
              IF r = 0
              THEN VEq(fout[<< r, c >>], fout[<< r, c + 1 >>])
              ELSE /\ VLeq(fout[<< r, c >>], fout[<< r, c + 1 >>])
                   /\ \/ VLess(fout[<< r, c >>], fout[<< r, c + 1 >>])
                      \/ SameRounded(fout[<< r, c >>], fout[<< r, c + 1 >>])

\* C4, its case: 4 members, array failure rate 0.02, redundancy 1; the
\* result grows from weekly to monthly to quarterly repair.
C4_Witness ==
    /\ Applied("raid") /\ fin.n = 4
    /\ DEq(fin.array_failure_rate, MkFin(FALSE, BigOf(2), BigOf(100)))
    /\ VLess(fout[<< 1, 1 >>], fout[<< 1, 2 >>])
    /\ VLess(fout[<< 1, 2 >>], fout[<< 1, 3 >>])

\* 10^-k
TenthPower(k) == MkFin(FALSE, BOne, Pow10(k))

\* The rows of the formatter whose condition v > 10^-k holds.
RowsAbove(v) == { k \in 1..12 : DLess(TenthPower(k), v) }

\* The decimals of the first row whose condition holds (row k has k + 1
\* decimals), 14 when none holds.
DecimalsOf(v) ==
    IF RowsAbove(v) = {} THEN 14
    ELSE 1 + CHOOSE k \in RowsAbove(v) : \A m \in RowsAbove(v) : k <= m

RECURSIVE LeadSpaces(_)
LeadSpaces(s) ==
    IF s # << >> /\ Head(s) = " " THEN 1 + LeadSpaces(Tail(s)) ELSE 0

\* s without the spaces before and after it.
Trimmed(s) ==
    SubSeq(s, LeadSpaces(s) + 1, Len(s) - LeadSpaces(Reverse(s)))

IsDigit(c) == c \in { Digit(k) : k \in 0..9 }
DigitValue(c) == CHOOSE k \in 0..9 : Digit(k) = c

\* t is a fixed-point number with d decimals: digits, a point, d digits,
\* and no zero before the integer part.
IsFixedPoint(t, d) ==
    /\ Len(t) >= d + 2
    /\ t[Len(t) - d] = "."
    /\ \A x \in (1..Len(t)) \ {Len(t) - d} : IsDigit(t[x])
    /\ (Len(t) > d + 2) => t[1] # "0"

RECURSIVE DigitsValue(_)
\* The natural written by the digits ds.
DigitsValue(ds) ==
    IF ds = << >> THEN << >>
    ELSE BAdd(BMulLimb(DigitsValue(SubSeq(ds, 1, Len(ds) - 1)), 10),
              BigOf(DigitValue(ds[Len(ds)])))

\* The fixed-point number t of d decimals, times 10^d.
Scaled(t, d) == DigitsValue(SelectSeq(t, LAMBDA c : c # "."))

\* The fixed-point number t of d decimals is v >= 0 rounded to d decimals:
\* |t - v| <= 10^-d / 2.
RoundedTo(t, d, v) ==
    LET a == BMulLimb(BMul(Scaled(t, d), v.d), 2)
        b == BMulLimb(BMul(v.n, Pow10(d)), 2)
    IN  IF BCmp(a, b) >= 0 THEN BCmp(BSub(a, b), v.d) <= 0
        ELSE BCmp(BSub(b, a), v.d) <= 0

\* The text of fifty percent, and of a tenth of a percent.
Text50 == << "5", "0", ".", "0", "0" >>
Text01 == << "0", ".", "1", "0", "0" >>

\* C14 as stated: printp prints v with the decimals of the first row whose
\* strict condition holds (a value at a threshold takes the next row), as
\* the fixed-point number immediately followed by a percent sign, then
\* spaces up to the width pad; 50.0 gives "50.00%", 0.1 gives "0.100%",
\* 0.0 has 14 decimals.
C14_NumberPercentPaddedToWidth ==
    Applied("printp")
        => LET s == fout.printed
               core == Trimmed(s)
               num == SubSeq(core, 1, Len(core) - 1)
               d == DecimalsOf(fin.v)
           IN  /\ LeadSpaces(s) = 0
               /\ core[Len(core)] = "%"
               /\ IsFixedPoint(num, d)
               /\ RoundedTo(num, d, fin.v)
               /\ Len(s) = Max(fin.pad, Len(core))
               /\ DEq(fin.v, DOfNat(50)) => core = Text50 \o << "%" >>
               /\ DEq(fin.v, Dec(0, << 1000 >>)) => core = Text01 \o << "%" >>
               /\ IsZero(fin.v) => d = 14

\* C14, amended: for a finite v >= 0 printp prints v with the decimals d of
\* the first row whose strict condition holds (a value at a threshold takes
\* the next row): the fixed-point number rounded to d decimals, after
\* spaces where it is shorter than d + 3 characters, then a space and a
\* percent sign, then one space for each character that this text and one
\* more are short of pad (strlen counts the "%%" of the buffer, printed as
\* "%"): a padded output is pad - 1 characters wide.  50.0 gives
\* "50.00 %", 0.1 gives " 0.100 %", 0.0 has 14 decimals.
C14_FieldSpacePercentPaddedShortOfWidth ==
    Applied("printp")
        => LET s == fout.printed
               core == Trimmed(s)
               num == SubSeq(core, 1, Len(core) - 2)
               d == DecimalsOf(fin.v)
               field == Max(d + 3, Len(num))
           IN  /\ SubSeq(core, Len(core) - 1, Len(core)) = << " ", "%" >>
               /\ IsFixedPoint(num, d)
               /\ RoundedTo(num, d, fin.v)
               /\ LeadSpaces(s) = field - Len(num)
               /\ Len(s) = Max(fin.pad, field + 3) - 1
               /\ DEq(fin.v, DOfNat(50)) => core = Text50 \o << " ", "%" >>
               /\ DEq(fin.v, Dec(0, << 1000 >>))
                     => core = Text01 \o << " ", "%" >> /\ LeadSpaces(s) = 1
               /\ IsZero(fin.v) => d = 14

\* C14, its case: a tenth of a percent, at the first threshold, printed
\* for a column of 20: three decimals, and 19 characters.
C14_Witness ==
    /\ Applied("printp")
    /\ DEq(fin.v, Dec(0, << 1000 >>)) /\ fin.pad = 20
    /\ fout.printed = << " " >> \o Text01 \o << " ", "%" >> \o Repeat(" ", 11)

(***************************************************************************)
(* Properties of the directory stream (under SpecDir).                     *)
(***************************************************************************)
\* The entries returned by the first r calls of windows_readdir.
Returned(r) == Cardinality({ x \in 1..r : reads[x].ret # Null })

\* Entry m of the directory as windows_readdir returns it.
DirentOf(m) == [d_name |-> u16tou8(win.dir[m])]

\* C16: over a directory of k entries the calls of windows_readdir return
\* entry 1, entry 2, ... in order, none skipped and none twice: the m-th
\* entry returned is entry m, the first call returns the entry that
\* windows_opendir fetched without asking for a next one, a call made
\* before all k are returned returns the next entry, and a call made after
\* returns null with errno 0 (unless FindNextFileW reported an error of the
\* device: then null with errno set); end of stream is never reported
\* earlier.  For k = 0 every call returns null with errno 0 without asking
\* the find handle, and windows_closedir frees the stream, once, without
\* passing the invalid handle to FindClose.
C16_ReaddirReturnsEachEntryOnce ==
    /\ \A r \in 1..Len(reads) :
          /\ Returned(r) <= Len(win.dir)
          /\ reads[r].ret # Null => reads[r].ret = DirentOf(Returned(r))
          /\ (reads[r].ret = Null /\ reads[r].errno = NoError)
                => Returned(r - 1) = Len(win.dir)
          /\ reads[r].find # "ERROR_IO_DEVICE"
                => IF Returned(r - 1) < Len(win.dir)
                   THEN reads[r].ret # Null
                   ELSE reads[r].ret = Null /\ reads[r].errno = NoError
          /\ (r = 1 \/ win.dir = << >>) => reads[r].find = "none"
    /\ \A x \in 1..Len(win.closed) : win.closed[x] # INVALID_HANDLE_VALUE
    /\ pc = "readdir" => win.freed = 0 /\ dirstream.s = "open"
    /\ pc = "closed"
          => /\ win.freed = 1 /\ dirstream.s = "freed"
             /\ win.closed = IF win.dir = << >> THEN << >>
                             ELSE << FindHandle >>
             /\ win.dir = << >> => win.closedir = "0"

\* C16, its case: a directory of two entries read to its end and closed:
\* three calls returned the first entry, the second, and null with errno 0.
C16_Witness ==
    /\ pc = "closed" /\ win.closedir = "0"
    /\ win.dir = << << "U+00E9", "a" >>, << "b" >> >>
    /\ Len(reads) = 3
    /\ reads[1].ret = [d_name |-> << "0xC3", "0xA9", "a" >>]
    /\ reads[2].ret = [d_name |-> << "b" >>]
    /\ reads[3].ret = Null /\ reads[3].errno = NoError
    /\ reads[1].errno = "EEXIST"
====
